---- MODULE Spec2Model ----
(***************************************************************************)
(* husky_whale: lexer, precedence tables, AST node model and Pratt parser  *)
(* for a SQL SELECT dialect.                                               *)
(*                                                                         *)
(* A text is a sequence of characters; a character is a string of length   *)
(* one, and "" is the character the lexer reads past the end of the input. *)
(* Token types are named by the constants of husky_whale.token.            *)
(***************************************************************************)
EXTENDS Integers, Sequences, FiniteSets, TLC

\* ------------------------------------------------------------------------
\* Characters (lexer.py, is_letter / is_number / is_identifier_char /
\* is_whitespace)
\* ------------------------------------------------------------------------

Lower ==
    {"a", "b", "c", "d", "e", "f", "g", "h", "i", "j", "k", "l", "m",
     "n", "o", "p", "q", "r", "s", "t", "u", "v", "w", "x", "y", "z"}

Upper ==
    {"A", "B", "C", "D", "E", "F", "G", "H", "I", "J", "K", "L", "M",
     "N", "O", "P", "Q", "R", "S", "T", "U", "V", "W", "X", "Y", "Z"}

Digits == {"0", "1", "2", "3", "4", "5", "6", "7", "8", "9"}

\* str.upper() on one character
UpperOf ==
    "a" :> "A" @@ "b" :> "B" @@ "c" :> "C" @@ "d" :> "D" @@ "e" :> "E" @@
    "f" :> "F" @@ "g" :> "G" @@ "h" :> "H" @@ "i" :> "I" @@ "j" :> "J" @@
    "k" :> "K" @@ "l" :> "L" @@ "m" :> "M" @@ "n" :> "N" @@ "o" :> "O" @@
    "p" :> "P" @@ "q" :> "Q" @@ "r" :> "R" @@ "s" :> "S" @@ "t" :> "T" @@
    "u" :> "U" @@ "v" :> "V" @@ "w" :> "W" @@ "x" :> "X" @@ "y" :> "Y" @@
    "z" :> "Z"

upper(s) == [i \in 1..Len(s) |-> IF s[i] \in Lower THEN UpperOf[s[i]] ELSE s[i]]

is_letter(c) == c \in Lower \cup Upper

is_number(c) == c \in Digits

is_identifier_char(c) == c \in Lower \cup Upper \cup Digits \cup {"_"}

is_whitespace(c) == c = " " \/ c = "\n" \/ c = "\t"

\* ------------------------------------------------------------------------
\* Lexer (lexer.py)
\* ------------------------------------------------------------------------

Token(type, literal) == [type |-> type, literal |-> literal]

\* input[a:b] of Python, on a sequence
Slice(s, a, b) == SubSeq(s, a + 1, IF b < Len(s) THEN b ELSE Len(s))

\* the keyword table, keyed by the upper-cased word
keyword_tokens ==
    <<"A", "E", "S", "1", "2", "8">> :> "AES128" @@
    <<"A", "E", "S", "2", "5", "6">> :> "AES256" @@
    <<"A", "L", "L">> :> "ALL" @@
    <<"A", "L", "L", "O", "W", "O", "V", "E", "R", "W", "R", "I", "T", "E">> :> "ALLOWOVERWRITE" @@
    <<"A", "N", "A", "L", "Y", "S", "E">> :> "ANALYSE" @@
    <<"A", "N", "A", "L", "Y", "Z", "E">> :> "ANALYZE" @@
    <<"A", "N", "D">> :> "AND" @@
    <<"A", "N", "Y">> :> "ANY" @@
    <<"A", "R", "R", "A", "Y">> :> "ARRAY" @@
    <<"A", "S">> :> "AS" @@
    <<"A", "S", "C">> :> "ASC" @@
    <<"A", "V", "G">> :> "AVG" @@
    <<"A", "U", "T", "H", "O", "R", "I", "Z", "A", "T", "I", "O", "N">> :> "AUTHORIZATION" @@
    <<"A", "Z", "6", "4">> :> "AZ64" @@
    <<"B", "A", "C", "K", "U", "P">> :> "BACKUP" @@
    <<"B", "E", "T", "W", "E", "E", "N">> :> "BETWEEN" @@
    <<"B", "I", "N", "A", "R", "Y">> :> "BINARY" @@
    <<"B", "L", "A", "N", "K", "S", "A", "S", "N", "U", "L", "L">> :> "BLANKSASNULL" @@
    <<"B", "O", "T", "H">> :> "BOTH" @@
    <<"B", "Y">> :> "BY" @@
    <<"B", "Y", "T", "E", "D", "I", "C", "T">> :> "BYTEDICT" @@
    <<"B", "Z", "I", "P", "2">> :> "BZIP2" @@
    <<"C", "A", "S", "E">> :> "CASE" @@
    <<"C", "A", "S", "T">> :> "CAST" @@
    <<"C", "H", "E", "C", "K">> :> "CHECK" @@
    <<"C", "O", "L", "L", "A", "T", "E">> :> "COLLATE" @@
    <<"C", "O", "L", "U", "M", "N">> :> "COLUMN" @@
    <<"C", "O", "U", "N", "T">> :> "COUNT" @@
    <<"C", "O", "N", "S", "T", "R", "A", "I", "N", "T">> :> "CONSTRAINT" @@
    <<"C", "R", "E", "A", "T", "E">> :> "CREATE" @@
    <<"C", "R", "E", "D", "E", "N", "T", "I", "A", "L", "S">> :> "CREDENTIALS" @@
    <<"C", "R", "O", "S", "S">> :> "CROSS" @@
    <<"C", "U", "R", "R", "E", "N", "T", "_", "D", "A", "T", "E">> :> "CURRENT_DATE" @@
    <<"C", "U", "R", "R", "E", "N", "T", "_", "T", "I", "M", "E">> :> "CURRENT_TIME" @@
    <<"C", "U", "R", "R", "E", "N", "T", "_", "T", "I", "M", "E", "S", "T", "A", "M", "P">> :> "CURRENT_TIMESTAMP" @@
    <<"C", "U", "R", "R", "E", "N", "T", "_", "U", "S", "E", "R">> :> "CURRENT_USER" @@
    <<"C", "U", "R", "R", "E", "N", "T", "_", "U", "S", "E", "R", "_", "I", "D">> :> "CURRENT_USER_ID" @@
    <<"D", "E", "F", "A", "U", "L", "T">> :> "DEFAULT" @@
    <<"D", "E", "F", "E", "R", "R", "A", "B", "L", "E">> :> "DEFERRABLE" @@
    <<"D", "E", "F", "L", "A", "T", "E">> :> "DEFLATE" @@
    <<"D", "E", "F", "R", "A", "G">> :> "DEFRAG" @@
    <<"D", "E", "L", "T", "A">> :> "DELTA" @@
    <<"D", "E", "L", "T", "A", "3", "2", "K">> :> "DELTA32K" @@
    <<"D", "E", "S", "C">> :> "DESC" @@
    <<"D", "I", "S", "A", "B", "L", "E">> :> "DISABLE" @@
    <<"D", "I", "S", "T", "I", "N", "C", "T">> :> "DISTINCT" @@
    <<"D", "O">> :> "DO" @@
    <<"E", "L", "S", "E">> :> "ELSE" @@
    <<"E", "M", "P", "T", "Y", "A", "S", "N", "U", "L", "L">> :> "EMPTYASNULL" @@
    <<"E", "N", "A", "B", "L", "E">> :> "ENABLE" @@
    <<"E", "N", "C", "O", "D", "E">> :> "ENCODE" @@
    <<"E", "N", "C", "R", "Y", "P", "T">> :> "ENCRYPT" @@
    <<"E", "N", "C", "R", "Y", "P", "T", "I", "O", "N">> :> "ENCRYPTION" @@
    <<"E", "N", "D">> :> "END" @@
    <<"E", "X", "C", "E", "P", "T">> :> "EXCEPT" @@
    <<"E", "X", "P", "L", "I", "C", "I", "T">> :> "EXPLICIT" @@
    <<"F", "A", "L", "S", "E">> :> "FALSE" @@
    <<"F", "O", "R">> :> "FOR" @@
    <<"F", "O", "R", "E", "I", "G", "N">> :> "FOREIGN" @@
    <<"F", "R", "E", "E", "Z", "E">> :> "FREEZE" @@
    <<"F", "R", "O", "M">> :> "FROM" @@
    <<"F", "U", "L", "L">> :> "FULL" @@
    <<"G", "L", "O", "B", "A", "L", "D", "I", "C", "T", "2", "5", "6">> :> "GLOBALDICT256" @@
    <<"G", "L", "O", "B", "A", "L", "D", "I", "C", "T", "6", "4", "K">> :> "GLOBALDICT64K" @@
    <<"G", "R", "A", "N", "T">> :> "GRANT" @@
    <<"G", "R", "O", "U", "P">> :> "GROUP" @@
    <<"G", "Z", "I", "P">> :> "GZIP" @@
    <<"H", "A", "V", "I", "N", "G">> :> "HAVING" @@
    <<"I", "D", "E", "N", "T", "I", "T", "Y">> :> "IDENTITY" @@
    <<"I", "G", "N", "O", "R", "E">> :> "IGNORE" @@
    <<"I", "L", "I", "K", "E">> :> "ILIKE" @@
    <<"I", "N">> :> "IN" @@
    <<"I", "N", "I", "T", "I", "A", "L", "L", "Y">> :> "INITIALLY" @@
    <<"I", "N", "N", "E", "R">> :> "INNER" @@
    <<"I", "N", "T", "E", "R", "S", "E", "C", "T">> :> "INTERSECT" @@
    <<"I", "N", "T", "O">> :> "INTO" @@
    <<"I", "S">> :> "IS" @@
    <<"I", "S", "N", "U", "L", "L">> :> "ISNULL" @@
    <<"J", "O", "I", "N">> :> "JOIN" @@
    <<"L", "A", "N", "G", "U", "A", "G", "E">> :> "LANGUAGE" @@
    <<"L", "E", "A", "D", "I", "N", "G">> :> "LEADING" @@
    <<"L", "E", "F", "T">> :> "LEFT" @@
    <<"L", "I", "K", "E">> :> "LIKE" @@
    <<"L", "I", "M", "I", "T">> :> "LIMIT" @@
    <<"L", "O", "C", "A", "L", "T", "I", "M", "E">> :> "LOCALTIME" @@
    <<"L", "O", "C", "A", "L", "T", "I", "M", "E", "S", "T", "A", "M", "P">> :> "LOCALTIMESTAMP" @@
    <<"L", "U", "N">> :> "LUN" @@
    <<"L", "U", "N", "S">> :> "LUNS" @@
    <<"L", "Z", "O">> :> "LZO" @@
    <<"L", "Z", "O", "P">> :> "LZOP" @@
    <<"M", "I", "N", "U", "S">> :> "MINUS" @@
    <<"M", "O", "S", "T", "L", "Y", "1", "3">> :> "MOSTLY13" @@
    <<"M", "O", "S", "T", "L", "Y", "3", "2">> :> "MOSTLY32" @@
    <<"M", "O", "S", "T", "L", "Y", "8">> :> "MOSTLY8" @@
    <<"N", "A", "T", "U", "R", "A", "L">> :> "NATURAL" @@
    <<"N", "E", "W">> :> "NEW" @@
    <<"N", "O", "T">> :> "NOT" @@
    <<"N", "O", "T", "N", "U", "L", "L">> :> "NOTNULL" @@
    <<"N", "U", "L", "L">> :> "NULL" @@
    <<"N", "U", "L", "L", "S">> :> "NULLS" @@
    <<"O", "F", "F">> :> "OFF" @@
    <<"O", "F", "F", "L", "I", "N", "E">> :> "OFFLINE" @@
    <<"O", "F", "F", "S", "E", "T">> :> "OFFSET" @@
    <<"O", "I", "D">> :> "OID" @@
    <<"O", "L", "D">> :> "OLD" @@
    <<"O", "N">> :> "ON" @@
    <<"O", "N", "L", "Y">> :> "ONLY" @@
    <<"O", "P", "E", "N">> :> "OPEN" @@
    <<"O", "R">> :> "OR" @@
    <<"O", "R", "D", "E", "R">> :> "ORDER" @@
    <<"O", "U", "T", "E", "R">> :> "OUTER" @@
    <<"O", "V", "E", "R", "L", "A", "P", "S">> :> "OVERLAPS" @@
    <<"P", "A", "R", "A", "L", "L", "E", "L">> :> "PARALLEL" @@
    <<"P", "A", "R", "T", "I", "T", "I", "O", "N">> :> "PARTITION" @@
    <<"P", "E", "R", "C", "E", "N", "T">> :> "PERCENT" @@
    <<"P", "E", "R", "M", "I", "S", "S", "I", "O", "N", "S">> :> "PERMISSIONS" @@
    <<"P", "L", "A", "C", "I", "N", "G">> :> "PLACING" @@
    <<"P", "R", "I", "M", "A", "R", "Y">> :> "PRIMARY" @@
    <<"R", "A", "W">> :> "RAW" @@
    <<"R", "E", "A", "D", "R", "A", "T", "I", "O">> :> "READRATIO" @@
    <<"R", "E", "C", "O", "V", "E", "R">> :> "RECOVER" @@
    <<"R", "E", "F", "E", "R", "E", "N", "C", "E", "S">> :> "REFERENCES" @@
    <<"R", "E", "S", "P", "E", "C", "T">> :> "RESPECT" @@
    <<"R", "E", "J", "E", "C", "T", "L", "O", "G">> :> "REJECTLOG" @@
    <<"R", "E", "S", "O", "R", "T">> :> "RESORT" @@
    <<"R", "E", "S", "T", "O", "R", "E">> :> "RESTORE" @@
    <<"R", "I", "G", "H", "T">> :> "RIGHT" @@
    <<"S", "E", "L", "E", "C", "T">> :> "SELECT" @@
    <<"S", "E", "S", "S", "I", "O", "N", "_", "U", "S", "E", "R">> :> "SESSION_USER" @@
    <<"S", "I", "M", "I", "L", "A", "R">> :> "SIMILAR" @@
    <<"S", "N", "A", "P", "S", "H", "O", "T">> :> "SNAPSHOT" @@
    <<"S", "O", "M", "E">> :> "SOME" @@
    <<"S", "U", "M">> :> "SUM" @@
    <<"S", "Y", "S", "D", "A", "T", "E">> :> "SYSDATE" @@
    <<"S", "Y", "S", "T", "E", "M">> :> "SYSTEM" @@
    <<"T", "A", "B", "L", "E">> :> "TABLE" @@
    <<"T", "A", "G">> :> "TAG" @@
    <<"T", "D", "E", "S">> :> "TDES" @@
    <<"T", "E", "X", "T", "2", "5", "5">> :> "TEXT255" @@
    <<"T", "E", "X", "T", "3", "2", "K">> :> "TEXT32K" @@
    <<"T", "H", "E", "N">> :> "THEN" @@
    <<"T", "I", "M", "E", "S", "T", "A", "M", "P">> :> "TIMESTAMP" @@
    <<"T", "O">> :> "TO" @@
    <<"T", "O", "P">> :> "TOP" @@
    <<"T", "R", "A", "I", "L", "I", "N", "G">> :> "TRAILING" @@
    <<"T", "R", "U", "E">> :> "TRUE" @@
    <<"T", "R", "U", "N", "C", "A", "T", "E", "C", "O", "L", "U", "M", "N", "S">> :> "TRUNCATECOLUMNS" @@
    <<"U", "N", "I", "O", "N">> :> "UNION" @@
    <<"U", "N", "I", "Q", "U", "E">> :> "UNIQUE" @@
    <<"U", "S", "E", "R">> :> "USER" @@
    <<"U", "S", "I", "N", "G">> :> "USING" @@
    <<"V", "E", "R", "B", "O", "S", "E">> :> "VERBOSE" @@
    <<"W", "A", "L", "L", "E", "T">> :> "WALLET" @@
    <<"W", "H", "E", "N">> :> "WHEN" @@
    <<"W", "H", "E", "R", "E">> :> "WHERE" @@
    <<"W", "I", "T", "H">> :> "WITH" @@
    <<"W", "I", "T", "H", "O", "U", "T">> :> "WITHOUT"

read_char(l) ==
    [l EXCEPT !.char = IF l.read_pos >= Len(l.input) THEN "" ELSE l.input[l.read_pos + 1],
              !.char_pos = l.read_pos,
              !.read_pos = l.read_pos + 1]

peek_char(l) == IF l.read_pos >= Len(l.input) THEN "" ELSE l.input[l.read_pos + 1]

\* Lexer.__init__
Lexer(input) ==
    read_char([input |-> input, char |-> "", char_pos |-> 0, read_pos |-> 0])

\* x = v followed by the statements In(x): v is computed first, as the
\* interpreter computes it, and once however many times In uses it
Do(v, In(_)) == CASE {v} # {} -> In(v)

\* A scanning method returns the lexer it leaves behind and the text it read;
\* hang is TRUE when its loop never ends (the scan reads "" for ever).
Scanned(l, s, hang) == [l |-> l, s |-> s, hang |-> hang]

\* the lexer after the read_char that reaches position pos
At(l, pos) ==
    [l EXCEPT !.char = IF pos >= Len(l.input) THEN "" ELSE l.input[pos + 1],
              !.char_pos = pos,
              !.read_pos = pos + 1]

\* while test(self.char): self.read_char()
\* The loop leaves the lexer at the first position from char_pos on whose
\* character fails the test; every test fails on the "" read at the end of
\* the input.
While(l, test(_)) ==
    At(l, CHOOSE e \in l.char_pos..(IF l.char_pos < Len(l.input) THEN Len(l.input)
                                     ELSE l.char_pos) :
            /\ ~test(At(l, e).char)
            /\ \A i \in l.char_pos..(e - 1) : test(At(l, i).char))

WhileWhitespace(l) == While(l, is_whitespace)

WhileNumber(l) == While(l, is_number)

WhileIdentifierChar(l) == While(l, is_identifier_char)

\* while self.char != q: self.read_char()
\* Past the end of the input read_char leaves char = "" and the loop never ends.
Stopped(e, q) == Scanned(e, <<>>, e.char # q)

WhileNot(l, q) == Stopped(While(l, LAMBDA c : c # q /\ c # ""), q)

\* self.input[start : self.char_pos] after a scan that left the lexer e
Read(l, e) == Scanned(e, Slice(l.input, l.char_pos, e.char_pos), FALSE)

read_whitespace(l) == Read(l, WhileWhitespace(l))

\* a read_integer that reads nothing
read_integer_nothing(l) == Read(l, l)

read_integer(l) == Read(l, WhileNumber(l))

\* the closing quote is read unless the loop before it never ends
Closed(l, body) ==
    IF body.hang THEN Scanned(body.l, <<>>, TRUE) ELSE Read(l, read_char(body.l))

read_string(l) == Closed(l, WhileNot(read_char(l), "'"))

\* the segments of read_identifier's outer loop, from the lexer at a segment start
RECURSIVE IdentifierSegments(_)
RECURSIVE NextSegment(_)

NextSegment(seg) ==
    CASE seg.hang -> seg
      [] ~seg.hang /\ seg.l.char # "." -> seg
      [] ~seg.hang /\ seg.l.char = "." -> IdentifierSegments(read_char(seg.l))

IdentifierSegments(l) ==
    NextSegment(IF l.char = "\"" THEN Closed(l, WhileNot(read_char(l), "\""))
                ELSE Scanned(WhileIdentifierChar(l), <<>>, FALSE))

Identifier(l, e) == IF e.hang THEN e ELSE Read(l, e.l)

read_identifier(l) == Identifier(l, IdentifierSegments(l))

\* what next_token returns: the lexer after the call, the token, and whether
\* the call fails to return
Lexed(l, t, hang) == [l |-> l, t |-> t, hang |-> hang]

\* return Token(type, self.read_...())
ScannedToken(type, r) == Lexed(r.l, Token(type, r.s), r.hang)

\* a one-character token whose character is read twice
OneChar_read_twice(l, type) ==
    Lexed(read_char(read_char(l)), Token(type, <<l.char>>), FALSE)

\* a one-character token: t = Token(type, c), then self.read_char()
OneChar(l, type) == Lexed(read_char(l), Token(type, <<l.char>>), FALSE)

\* a two-character token that keeps its first character only
TwoChar_first_character(l, type) ==
    Lexed(read_char(read_char(l)), Token(type, <<l.char>>), FALSE)

\* a two-character token: self.read_char(); t = Token(type, c + self.char);
\* then self.read_char()
TwoChar(l, type) ==
    Lexed(read_char(read_char(l)), Token(type, <<l.char, read_char(l).char>>), FALSE)

\* the keyword lookup without the test of the character that follows
KeywordOrIdentifier_whatever_follows(id, identifier_upper) ==
    ScannedToken(IF identifier_upper \in DOMAIN keyword_tokens
                 THEN keyword_tokens[identifier_upper] ELSE "IDENTIFIER", id)

\* if identifier_upper in keyword_tokens and self.char != "("
KeywordOrIdentifier(id, identifier_upper) ==
    ScannedToken(IF identifier_upper \in DOMAIN keyword_tokens /\ id.l.char # "("
                 THEN keyword_tokens[identifier_upper] ELSE "IDENTIFIER", id)

\* identifier_upper = identifier.upper()
Identified(id) == KeywordOrIdentifier(id, upper(id.s))

\* the branches on c exclude one another
next_token(l) ==
    CASE is_whitespace(l.char) -> ScannedToken("WHITESPACE", read_whitespace(l))
      [] l.char = "\"" -> ScannedToken("IDENTIFIER", read_identifier(l))
      [] l.char = "'" -> ScannedToken("STRING", read_string(l))
      [] l.char = "+" -> OneChar(l, "PLUS")
      [] l.char = "-" -> OneChar(l, "SUBTRACT")
      [] l.char = "*" -> OneChar(l, "ASTERISK")
      [] l.char = "/" -> OneChar(l, "SLASH")
      [] l.char = "|" /\ peek_char(l) = "|" -> TwoChar(l, "PIPEPIPE")
      [] l.char = "|" /\ peek_char(l) # "|" -> OneChar(l, "PIPE")
      [] l.char = "=" -> OneChar(l, "EQUAL")
      [] l.char = "!" /\ peek_char(l) = "=" -> TwoChar(l, "BANGEQUAL")
      [] l.char = "!" /\ peek_char(l) # "=" -> OneChar(l, "BANG")
      [] l.char = "<" /\ peek_char(l) = "=" -> TwoChar(l, "LTEQUAL")
      [] l.char = "<" /\ peek_char(l) = ">" -> TwoChar(l, "LTGT")
      [] l.char = "<" /\ peek_char(l) \notin {"=", ">"} -> OneChar(l, "LT")
      [] l.char = ">" /\ peek_char(l) = "=" -> TwoChar(l, "GTEQUAL")
      [] l.char = ">" /\ peek_char(l) # "=" -> OneChar(l, "GT")
      [] l.char = "," -> OneChar(l, "COMMA")
      [] l.char = "." -> OneChar(l, "FULLSTOP")
      [] l.char = ":" /\ peek_char(l) = ":" -> TwoChar(l, "COLONCOLON")
      [] l.char = ":" /\ peek_char(l) # ":" -> OneChar(l, "COLON")
      [] l.char = "(" -> OneChar(l, "LPAREN")
      [] l.char = ")" -> OneChar(l, "RPAREN")
      [] l.char = "" -> Lexed(read_char(l), Token("EOF", <<>>), FALSE)
      [] is_letter(l.char) \/ l.char = "_" -> Identified(read_identifier(l))
      [] is_number(l.char) -> ScannedToken("INTEGER", read_integer(l))
      [] OTHER -> OneChar(l, "ILLEGAL")

\* next_whitespace_and_token: the trivia tokens before the next significant
\* token, and that token
RECURSIVE WhitespaceAndToken(_, _)
RECURSIVE Collected(_, _)

\* t = self.next_token() has returned n
Collected(n, whitespace) ==
    IF ~n.hang /\ n.t.type \in {"WHITESPACE", "COMMENT_SINGLE"}
    THEN WhitespaceAndToken(n.l, Append(whitespace, n.t))
    ELSE [l |-> n.l, whitespace |-> whitespace, t |-> n.t, hang |-> n.hang]

WhitespaceAndToken(l, whitespace) == Collected(next_token(l), whitespace)

next_whitespace_and_token(l) == WhitespaceAndToken(l, <<>>)

\* ------------------------------------------------------------------------
\* Precedence tables (precedence.py)
\* ------------------------------------------------------------------------

ColumnExpressionPrecedence ==
    [LOWEST |-> 0, ASC_DESC |-> 1, AS |-> 2, OR |-> 3, AND |-> 4, NOT |-> 5,
     IS |-> 6, EQUALS_LESS_GREATER |-> 7, BETWEEN_IN_LIKE |-> 8, CONCAT |-> 9,
     SUM |-> 10, PRODUCT |-> 11, PREFIX |-> 12, CAST |-> 13, CALL |-> 14]

token_column_precedences ==
    "ASC" :> ColumnExpressionPrecedence.ASC_DESC @@
    "DESC" :> ColumnExpressionPrecedence.ASC_DESC @@
    "AS" :> ColumnExpressionPrecedence.AS @@
    "IDENTIFIER" :> ColumnExpressionPrecedence.AS @@
    "OR" :> ColumnExpressionPrecedence.OR @@
    "AND" :> ColumnExpressionPrecedence.AND @@
    "NOT" :> ColumnExpressionPrecedence.NOT @@
    "IS" :> ColumnExpressionPrecedence.IS @@
    "EQUAL" :> ColumnExpressionPrecedence.EQUALS_LESS_GREATER @@
    "BANGEQUAL" :> ColumnExpressionPrecedence.EQUALS_LESS_GREATER @@
    "LTGT" :> ColumnExpressionPrecedence.EQUALS_LESS_GREATER @@
    "GT" :> ColumnExpressionPrecedence.EQUALS_LESS_GREATER @@
    "LT" :> ColumnExpressionPrecedence.EQUALS_LESS_GREATER @@
    "GTEQUAL" :> ColumnExpressionPrecedence.EQUALS_LESS_GREATER @@
    "LTEQUAL" :> ColumnExpressionPrecedence.EQUALS_LESS_GREATER @@
    "BETWEEN" :> ColumnExpressionPrecedence.BETWEEN_IN_LIKE @@
    "IN" :> ColumnExpressionPrecedence.BETWEEN_IN_LIKE @@
    "ILIKE" :> ColumnExpressionPrecedence.BETWEEN_IN_LIKE @@
    "LIKE" :> ColumnExpressionPrecedence.BETWEEN_IN_LIKE @@
    "PIPEPIPE" :> ColumnExpressionPrecedence.CONCAT @@
    "PLUS" :> ColumnExpressionPrecedence.SUM @@
    "MINUS" :> ColumnExpressionPrecedence.SUM @@
    "ASTERISK" :> ColumnExpressionPrecedence.PRODUCT @@
    "SLASH" :> ColumnExpressionPrecedence.PRODUCT @@
    "COLONCOLON" :> ColumnExpressionPrecedence.CAST @@
    "LPAREN" :> ColumnExpressionPrecedence.CALL

TableExpressionPrecedence == [LOWEST |-> 0, JOIN |-> 1, AS |-> 2]

token_table_precedences ==
    "JOIN" :> TableExpressionPrecedence.JOIN @@
    "AS" :> TableExpressionPrecedence.AS @@
    "IDENTIFIER" :> TableExpressionPrecedence.AS

\* ------------------------------------------------------------------------
\* AST nodes (ast.py).  A node is a record; kind is its class.
\* ------------------------------------------------------------------------

\* Python's None, where a node may be absent
None == [kind |-> "None"]

\* Python's None, where a text may be absent (no text holds this character)
NoText == <<"None">>

Keyword(preceding, keyword, literal, trailing) ==
    [kind |-> "Keyword", preceding |-> preceding, keyword |-> keyword,
     literal |-> literal, trailing |-> trailing]

ColumnLiteral(preceding, literal, trailing) ==
    [kind |-> "ColumnLiteral", preceding |-> preceding, literal |-> literal,
     trailing |-> trailing]

ColumnPrefixExpression(preceding, operator, right, trailing) ==
    [kind |-> "ColumnPrefixExpression", preceding |-> preceding,
     operator |-> operator, right |-> right, trailing |-> trailing]

ColumnInfixExpression(preceding, left, operator, right, trailing) ==
    [kind |-> "ColumnInfixExpression", preceding |-> preceding, left |-> left,
     operator |-> operator, right |-> right, trailing |-> trailing]

ColumnGroupExpression(preceding, expression, trailing) ==
    [kind |-> "ColumnGroupExpression", preceding |-> preceding,
     expression |-> expression, trailing |-> trailing]

ColumnBetweenExpression(preceding, left, between, start, and_, end, trailing) ==
    [kind |-> "ColumnBetweenExpression", preceding |-> preceding, left |-> left,
     between |-> between, start |-> start, and_ |-> and_, end |-> end,
     trailing |-> trailing]

ColumnIdentifier(preceding, schema, table, column, trailing) ==
    [kind |-> "ColumnIdentifier", preceding |-> preceding, schema |-> schema,
     table |-> table, column |-> column, trailing |-> trailing]

ColumnCallExpression(preceding, function, arguments, trailing) ==
    [kind |-> "ColumnCallExpression", preceding |-> preceding,
     function |-> function, arguments |-> arguments, trailing |-> trailing]

ColumnAlias(preceding, value, as_, alias, trailing) ==
    [kind |-> "ColumnAlias", preceding |-> preceding, value |-> value,
     as_ |-> as_, alias |-> alias, trailing |-> trailing]

ColumnOrderExpression(preceding, value, order, trailing) ==
    [kind |-> "ColumnOrderExpression", preceding |-> preceding, value |-> value,
     order |-> order, trailing |-> trailing]

ResultsClause(preceding, expressions, trailing) ==
    [kind |-> "ResultsClause", preceding |-> preceding,
     expressions |-> expressions, trailing |-> trailing]

FromClause(preceding, from_, expression, trailing) ==
    [kind |-> "FromClause", preceding |-> preceding, from_ |-> from_,
     expression |-> expression, trailing |-> trailing]

WhereClause(preceding, where, expression, trailing) ==
    [kind |-> "WhereClause", preceding |-> preceding, where |-> where,
     expression |-> expression, trailing |-> trailing]

GroupByClause(preceding, group, by, expressions, trailing) ==
    [kind |-> "GroupByClause", preceding |-> preceding, group |-> group,
     by |-> by, expressions |-> expressions, trailing |-> trailing]

HavingClause(preceding, having, expression, trailing) ==
    [kind |-> "HavingClause", preceding |-> preceding, having |-> having,
     expression |-> expression, trailing |-> trailing]

OrderByClause(preceding, order, by, expressions, trailing) ==
    [kind |-> "OrderByClause", preceding |-> preceding, order |-> order,
     by |-> by, expressions |-> expressions, trailing |-> trailing]

LimitClause(preceding, limit, expression, trailing) ==
    [kind |-> "LimitClause", preceding |-> preceding, limit |-> limit,
     expression |-> expression, trailing |-> trailing]

Select(preceding, select, results, from_, where, group_by, having, order_by, limit, trailing) ==
    [kind |-> "Select", preceding |-> preceding, select |-> select,
     results |-> results, from_ |-> from_, where |-> where,
     group_by |-> group_by, having |-> having, order_by |-> order_by,
     limit |-> limit, trailing |-> trailing]

TableIdentifier(preceding, schema, table, trailing) ==
    [kind |-> "TableIdentifier", preceding |-> preceding, schema |-> schema,
     table |-> table, trailing |-> trailing]

TableAlias(preceding, value, as_, alias, trailing) ==
    [kind |-> "TableAlias", preceding |-> preceding, value |-> value,
     as_ |-> as_, alias |-> alias, trailing |-> trailing]

TableJoinExpression(preceding, left, join, right, on, condition, trailing) ==
    [kind |-> "TableJoinExpression", preceding |-> preceding, left |-> left,
     join |-> join, right |-> right, on |-> on, condition |-> condition,
     trailing |-> trailing]

\* "".join(texts)
RECURSIVE Concat(_)
Concat(texts) == IF texts = <<>> THEN <<>> ELSE Head(texts) \o Concat(Tail(texts))

\* sep.join(texts)
RECURSIVE Join(_, _)
Join(sep, texts) ==
    IF texts = <<>> THEN <<>>
    ELSE IF Len(texts) = 1 THEN texts[1]
    ELSE texts[1] \o sep \o Join(sep, Tail(texts))

\* text.split(sep) for a one-character sep: cur is the part being read
RECURSIVE SplitFrom(_, _, _, _)
SplitFrom(text, sep, i, cur) ==
    IF i > Len(text) THEN <<cur>>
    ELSE IF text[i] = sep THEN <<cur>> \o SplitFrom(text, sep, i + 1, <<>>)
    ELSE SplitFrom(text, sep, i + 1, Append(cur, text[i]))

split(text, sep) == SplitFrom(text, sep, 1, <<>>)

\* (text + "." if text else "")
Qualifier(text) == IF text # NoText /\ text # <<>> THEN text \o <<".">> ELSE <<>>

\* ------------------------------------------------------------------------
\* Parser (parser.py).  The parser is a record of its fields; raised names
\* the exception that left the running method ("" while none has), message
\* the token type the exception's message names.  A method whose call never
\* returns (the lexer scans for ever) is recorded as raised = "Hang".
\* Every parse method returns the parser it leaves and the node it built.
\* ------------------------------------------------------------------------

Parsed(p, node) == [p |-> p, node |-> IF p.raised = "" THEN node ELSE None]

Raise(p, exception, message) ==
    IF p.raised # "" THEN p ELSE [p EXCEPT !.raised = exception, !.message = message]

\* assert self.current_token.type == type: the AssertionError has no message
AssertCurrent(p, types) ==
    IF p.current_token.type \in types THEN p
    ELSE Raise(p, "AssertionError", "")

\* self.lexer.next_whitespace_and_token() has returned n
Advanced(p, n) ==
    IF n.hang THEN Raise(p, "Hang", "")
    ELSE [p EXCEPT !.current_whitespace = p.peek_whitespace,
                   !.current_token = p.peek_token,
                   !.peek_whitespace = n.whitespace,
                   !.peek_token = n.t,
                   !.lexer = n.l]

Parser_next_token(p) ==
    IF p.raised # "" THEN p ELSE Advanced(p, next_whitespace_and_token(p.lexer))

\* Parser.__init__
Parser(lexer) ==
    Parser_next_token(Parser_next_token(
        [lexer |-> lexer,
         current_whitespace |-> <<>>,
         current_token |-> Token("ILLEGAL", <<>>),
         peek_whitespace |-> <<>>,
         peek_token |-> Token("ILLEGAL", <<>>),
         raised |-> "",
         message |-> ""]))

current_column_precedence(p) ==
    IF p.current_token.type \in DOMAIN token_column_precedences
    THEN token_column_precedences[p.current_token.type]
    ELSE ColumnExpressionPrecedence.LOWEST

current_table_precedence(p) ==
    IF p.current_token.type \in DOMAIN token_table_precedences
    THEN token_table_precedences[p.current_token.type]
    ELSE TableExpressionPrecedence.LOWEST

\* a parse_whitespace that leaves the trivia it returns in place
parse_whitespace_uncleared(p) ==
    [p |-> p,
     w |-> [i \in 1..Len(p.current_whitespace) |-> p.current_whitespace[i].literal]]

\* parse_whitespace: the literals collected before the current token (w), and
\* the parser with that list cleared (p)
parse_whitespace(p) ==
    [p |-> IF p.raised # "" THEN p ELSE [p EXCEPT !.current_whitespace = <<>>],
     w |-> [i \in 1..Len(p.current_whitespace) |-> p.current_whitespace[i].literal]]

\* preceding = self.parse_whitespace() as a method's first statement: the list
\* it returns, and the parser it leaves
preceding(p) == parse_whitespace(p).w

Cleared(p) == parse_whitespace(p).p

\* a replace that builds the new node from the changes and the child nodes
\* only, losing the trivia the changes do not name
dataclasses_replace_losing_trivia(self, changes) ==
    IF DOMAIN changes \subseteq (DOMAIN self) \ {"kind"}
    THEN [raised |-> "",
          node |-> [f \in DOMAIN self |->
                        IF f \in DOMAIN changes THEN changes[f]
                        ELSE IF f \in {"preceding", "trailing"} THEN <<>>
                        ELSE self[f]]]
    ELSE [raised |-> "TypeError", node |-> None]

\* dataclasses.replace(self, **changes): changes is a function from field
\* names to values
dataclasses_replace(self, changes) ==
    IF DOMAIN changes \subseteq (DOMAIN self) \ {"kind"}
    THEN [raised |-> "",
          node |-> [f \in DOMAIN self |->
                        IF f \in DOMAIN changes THEN changes[f] ELSE self[f]]]
    ELSE [raised |-> "TypeError", node |-> None]

parse_keyword(p) ==
    Parsed(Parser_next_token(Cleared(p)),
           Keyword(preceding(p), p.current_token.type, p.current_token.literal, <<>>))

\* The handler tables: a token type's handler is named by its method, and ""
\* stands for the None that dict.get returns.
column_prefix_parse_fns ==
    "INTEGER" :> "parse_column_integer" @@
    "STRING" :> "parse_column_string" @@
    "NULL" :> "parse_keyword" @@
    "TRUE" :> "parse_keyword" @@
    "FALSE" :> "parse_keyword" @@
    "IDENTIFIER" :> "parse_column_identifier" @@
    "ASTERISK" :> "parse_keyword" @@
    "NOT" :> "parse_column_prefix_expression" @@
    "SUBTRACT" :> "parse_column_prefix_expression" @@
    "LPAREN" :> "parse_column_group_expression"

\* the lookup with the identifier handler for default
column_prefix_parse_fn_or_identifier(token_type) ==
    IF token_type \in DOMAIN column_prefix_parse_fns THEN column_prefix_parse_fns[token_type]
    ELSE "parse_column_identifier"

\* self.column_prefix_parse_fns.get(token_type)
column_prefix_parse_fn(token_type) ==
    IF token_type \in DOMAIN column_prefix_parse_fns THEN column_prefix_parse_fns[token_type]
    ELSE ""

column_infix_parse_fns ==
    "AS" :> "parse_column_alias_expression" @@
    "IDENTIFIER" :> "parse_column_alias_expression" @@
    "DESC" :> "parse_column_order_expression" @@
    "ASC" :> "parse_column_order_expression" @@
    "AND" :> "parse_column_infix_expression" @@
    "OR" :> "parse_column_infix_expression" @@
    "IS" :> "parse_column_infix_expression" @@
    "BETWEEN" :> "parse_column_between_expression" @@
    "EQUAL" :> "parse_column_infix_expression" @@
    "BANGEQUAL" :> "parse_column_infix_expression" @@
    "LTGT" :> "parse_column_infix_expression" @@
    "GT" :> "parse_column_infix_expression" @@
    "LT" :> "parse_column_infix_expression" @@
    "GTEQUAL" :> "parse_column_infix_expression" @@
    "LTEQUAL" :> "parse_column_infix_expression" @@
    "PLUS" :> "parse_column_infix_expression" @@
    "MINUS" :> "parse_column_infix_expression" @@
    "ASTERISK" :> "parse_column_infix_expression" @@
    "SLASH" :> "parse_column_infix_expression" @@
    "COLONCOLON" :> "parse_column_infix_expression" @@
    "PIPEPIPE" :> "parse_column_infix_expression" @@
    "LPAREN" :> "parse_column_call_expression"

\* the handler table read with parse_column_infix_expression for the token
\* types it does not hold
column_infix_parse_fn_or_infix(token_type) ==
    IF token_type \in DOMAIN column_infix_parse_fns THEN column_infix_parse_fns[token_type]
    ELSE "parse_column_infix_expression"

\* self.column_infix_parse_fns.get(token_type)
column_infix_parse_fn(token_type) ==
    IF token_type \in DOMAIN column_infix_parse_fns THEN column_infix_parse_fns[token_type]
    ELSE ""

table_prefix_parse_fns ==
    "IDENTIFIER" :> "parse_table_identifier"

\* self.table_prefix_parse_fns.get(token_type)
table_prefix_parse_fn(token_type) ==
    IF token_type \in DOMAIN table_prefix_parse_fns THEN table_prefix_parse_fns[token_type]
    ELSE ""

table_infix_parse_fns ==
    "JOIN" :> "parse_table_join" @@
    "AS" :> "parse_table_alias_expression" @@
    "IDENTIFIER" :> "parse_table_alias_expression"

\* self.table_infix_parse_fns.get(token_type)
table_infix_parse_fn(token_type) ==
    IF token_type \in DOMAIN table_infix_parse_fns THEN table_infix_parse_fns[token_type]
    ELSE ""

parse_column_integer(p) ==
    Parsed(Parser_next_token(Cleared(p)),
           ColumnLiteral(preceding(p), p.current_token.literal, <<>>))

parse_column_string(p) ==
    Parsed(Parser_next_token(Cleared(p)),
           ColumnLiteral(preceding(p), p.current_token.literal, <<>>))

parse_column_identifier(p) ==
    Do(split(p.current_token.literal, "."), LAMBDA parts :
    Do(Len(parts), LAMBDA n :
    Do(IF n <= 3 THEN Cleared(p)
       ELSE Raise(Cleared(p), "AssertionError", ""),
       LAMBDA a :
    Parsed(Parser_next_token(a),
           ColumnIdentifier(preceding(p),
                            IF n = 3 THEN parts[n - 2] ELSE NoText,
                            IF n >= 2 THEN parts[n - 1] ELSE NoText,
                            parts[n],
                            <<>>)))))

\* an alias handler that takes the alias only after the keyword AS
parse_column_alias_expression_as_only(p, left_exp) ==
    Do(parse_keyword(AssertCurrent(Cleared(p), {"AS"})), LAMBDA as_ :
    Do(AssertCurrent(as_.p, {"IDENTIFIER"}), LAMBDA a :
    Parsed(Parser_next_token(a),
           ColumnAlias(preceding(p), left_exp, as_.node, a.current_token.literal, <<>>))))

parse_column_alias_expression(p, left_exp) ==
    Do(IF p.current_token.type = "AS" THEN parse_keyword(Cleared(p))
       ELSE Parsed(Cleared(p), None),
       LAMBDA as_ :
    Do(AssertCurrent(as_.p, {"IDENTIFIER"}), LAMBDA a :
    Parsed(Parser_next_token(a),
           ColumnAlias(preceding(p), left_exp, as_.node, a.current_token.literal, <<>>))))

\* an order expression built without advancing past ASC or DESC
parse_column_order_expression_unread(p, left_exp) ==
    Do(parse_keyword(AssertCurrent(Cleared(p), {"ASC", "DESC"})), LAMBDA order :
    Parsed(Cleared(p), ColumnOrderExpression(preceding(p), left_exp, order.node, <<>>)))

parse_column_order_expression(p, left_exp) ==
    Do(parse_keyword(AssertCurrent(Cleared(p), {"ASC", "DESC"})), LAMBDA order :
    Parsed(order.p, ColumnOrderExpression(preceding(p), left_exp, order.node, <<>>)))

RECURSIVE parse_column_expression(_, _)
RECURSIVE ColumnInfixLoop(_, _, _)
RECURSIVE ColumnPrefixCall(_, _)
RECURSIVE ColumnInfixCall(_, _, _)
RECURSIVE parse_column_prefix_expression(_)
RECURSIVE parse_column_infix_expression(_, _)
RECURSIVE parse_column_group_expression(_)
RECURSIVE parse_column_call_expression(_, _)
RECURSIVE CallArguments(_, _)
RECURSIVE parse_column_between_expression(_, _)

parse_column_prefix_expression(p) ==
    Do(parse_keyword(Cleared(p)), LAMBDA operator :
    Do(parse_column_expression(operator.p, ColumnExpressionPrecedence.PREFIX),
        LAMBDA right :
    Parsed(right.p, ColumnPrefixExpression(preceding(p), operator.node, right.node, <<>>))))

\* an infix handler that parses its right operand at the lowest level,
\* whatever the operator's own
parse_column_infix_expression_lowest(p, left_exp) ==
    Do(parse_keyword(p), LAMBDA operator :
    Do(parse_column_expression(operator.p, ColumnExpressionPrecedence.LOWEST),
        LAMBDA right :
    Parsed(right.p,
           ColumnInfixExpression(<<>>, left_exp, operator.node, right.node, <<>>))))

parse_column_infix_expression(p, left_exp) ==
    Do(current_column_precedence(p), LAMBDA precedence :
    Do(parse_keyword(p), LAMBDA operator :
    Do(parse_column_expression(operator.p, precedence), LAMBDA right :
    Parsed(right.p,
           ColumnInfixExpression(<<>>, left_exp, operator.node, right.node, <<>>)))))

parse_column_group_expression(p) ==
    Do(Parser_next_token(AssertCurrent(Cleared(p), {"LPAREN"})), LAMBDA open :
    Do(parse_column_expression(open, ColumnExpressionPrecedence.LOWEST),
        LAMBDA expression :
    Do(parse_whitespace(AssertCurrent(expression.p, {"RPAREN"})), LAMBDA t :
    Parsed(Parser_next_token(t.p), ColumnGroupExpression(preceding(p), expression.node, t.w)))))

\* the loop of parse_column_call_expression ending without an exception at a
\* token that is neither a comma nor a closing parenthesis
CallArguments_lenient(p, arguments) ==
    Do(parse_column_expression(p, ColumnExpressionPrecedence.LOWEST),
        LAMBDA argument :
    IF argument.p.raised # "" THEN [p |-> argument.p, list |-> arguments]
    ELSE
    Do(parse_whitespace(argument.p), LAMBDA t :
    Do(Append(arguments, dataclasses_replace(argument.node, [trailing |-> t.w]).node),
        LAMBDA more :
    IF t.p.current_token.type = "COMMA"
    THEN CallArguments(Parser_next_token(t.p), more)
    ELSE IF t.p.current_token.type = "RPAREN"
    THEN [p |-> Parser_next_token(t.p), list |-> more]
    ELSE [p |-> t.p, list |-> more])))

\* the while True loop of parse_column_call_expression, from the parser at
\* the start of an argument
CallArguments(p, arguments) ==
    Do(parse_column_expression(p, ColumnExpressionPrecedence.LOWEST),
        LAMBDA argument :
    IF argument.p.raised # "" THEN [p |-> argument.p, list |-> arguments]
    ELSE
    Do(parse_whitespace(argument.p), LAMBDA t :
    Do(Append(arguments, dataclasses_replace(argument.node, [trailing |-> t.w]).node),
        LAMBDA more :
    IF t.p.current_token.type = "COMMA"
    THEN CallArguments(Parser_next_token(t.p), more)
    ELSE IF t.p.current_token.type = "RPAREN"
    THEN [p |-> Parser_next_token(t.p), list |-> more]
    ELSE [p |-> Raise(t.p, "ParseError", t.p.current_token.type), list |-> more])))

parse_column_call_expression(p, function) ==
    Do(Parser_next_token(AssertCurrent(Cleared(p), {"LPAREN"})), LAMBDA open :
    IF open.raised = "" /\ open.current_token.type = "RPAREN"
    THEN Parsed(Parser_next_token(open),
                ColumnCallExpression(preceding(p), function, <<>>, <<>>))
    ELSE Do(CallArguments(open, <<>>), LAMBDA args :
         Parsed(args.p, ColumnCallExpression(preceding(p), function, args.list, <<>>))))

parse_column_between_expression(p, left_exp) ==
    Do(AssertCurrent(p, {"BETWEEN"}), LAMBDA a :
    Do(current_column_precedence(a), LAMBDA precedence :
    Do(parse_keyword(a), LAMBDA between :
    Do(parse_column_expression(between.p, precedence), LAMBDA start :
    Do(parse_keyword(AssertCurrent(start.p, {"AND"})), LAMBDA and_ :
    Do(parse_column_expression(and_.p, precedence), LAMBDA end :
    Parsed(end.p,
           ColumnBetweenExpression(<<>>, left_exp, between.node, start.node,
                                   and_.node, end.node, <<>>))))))))

\* prefix_fn()
ColumnPrefixCall(fn, p) ==
    CASE fn = "parse_column_integer" -> parse_column_integer(p)
      [] fn = "parse_column_string" -> parse_column_string(p)
      [] fn = "parse_keyword" -> parse_keyword(p)
      [] fn = "parse_column_identifier" -> parse_column_identifier(p)
      [] fn = "parse_column_prefix_expression" -> parse_column_prefix_expression(p)
      [] fn = "parse_column_group_expression" -> parse_column_group_expression(p)

\* infix_fn(left_exp)
ColumnInfixCall(fn, p, left_exp) ==
    CASE fn = "parse_column_alias_expression" -> parse_column_alias_expression(p, left_exp)
      [] fn = "parse_column_order_expression" -> parse_column_order_expression(p, left_exp)
      [] fn = "parse_column_infix_expression" -> parse_column_infix_expression(p, left_exp)
      [] fn = "parse_column_between_expression" -> parse_column_between_expression(p, left_exp)
      [] fn = "parse_column_call_expression" -> parse_column_call_expression(p, left_exp)

\* the while loop of parse_column_expression
ColumnInfixLoop(p, left_exp, precedence) ==
    IF p.raised # "" THEN Parsed(p, None)
    ELSE IF p.current_token.type # "EOF" /\ precedence < current_column_precedence(p)
    THEN (IF column_infix_parse_fn(p.current_token.type) = "" THEN Parsed(p, left_exp)
          ELSE Do(ColumnInfixCall(column_infix_parse_fn(p.current_token.type), p, left_exp),
                  LAMBDA next : ColumnInfixLoop(next.p, next.node, precedence)))
    ELSE Parsed(p, left_exp)

\* Pratt parser algorithm
parse_column_expression(p, precedence) ==
    IF p.raised # "" THEN Parsed(p, None)
    ELSE IF column_prefix_parse_fn(p.current_token.type) = ""
    THEN Parsed(Raise(p, "ParseError", p.current_token.type), None)
    ELSE Do(ColumnPrefixCall(column_prefix_parse_fn(p.current_token.type), p),
            LAMBDA left_exp : ColumnInfixLoop(left_exp.p, left_exp.node, precedence))

parse_table_identifier(p) ==
    Do(split(p.current_token.literal, "."), LAMBDA parts :
    Do(Len(parts), LAMBDA n :
    Do(IF n <= 3 THEN Cleared(p)
       ELSE Raise(Cleared(p), "AssertionError", ""),
       LAMBDA a :
    Parsed(Parser_next_token(a),
           TableIdentifier(preceding(p),
                           IF n = 2 THEN parts[n - 1] ELSE NoText,
                           parts[n],
                           <<>>)))))

parse_table_alias_expression(p, left_exp) ==
    Do(IF p.current_token.type = "AS" THEN parse_keyword(Cleared(p))
       ELSE Parsed(Cleared(p), None),
       LAMBDA as_ :
    Do(AssertCurrent(as_.p, {"IDENTIFIER"}), LAMBDA a :
    Parsed(Parser_next_token(a),
           TableAlias(preceding(p), left_exp, as_.node, a.current_token.literal, <<>>))))

RECURSIVE parse_table_expression(_, _)
RECURSIVE TableInfixLoop(_, _, _)
RECURSIVE TableInfixCall(_, _, _)
RECURSIVE parse_table_join(_, _)

parse_table_join(p, left_exp) ==
    Do(parse_keyword(AssertCurrent(Cleared(p), {"JOIN"})), LAMBDA join :
    Do(parse_table_expression(join.p, TableExpressionPrecedence.LOWEST),
        LAMBDA right_exp :
    Do(parse_keyword(AssertCurrent(right_exp.p, {"ON"})), LAMBDA on :
    Do(parse_column_expression(on.p, ColumnExpressionPrecedence.LOWEST),
        LAMBDA condition :
    Do(parse_whitespace(condition.p), LAMBDA t :
    Parsed(t.p,
           TableJoinExpression(preceding(p), left_exp, join.node, right_exp.node, on.node,
                               condition.node, t.w)))))))

\* prefix_fn()
TablePrefixCall(fn, p) ==
    CASE fn = "parse_table_identifier" -> parse_table_identifier(p)

\* infix_fn(left_exp)
TableInfixCall(fn, p, left_exp) ==
    CASE fn = "parse_table_join" -> parse_table_join(p, left_exp)
      [] fn = "parse_table_alias_expression" -> parse_table_alias_expression(p, left_exp)

\* the loop of parse_table_expression left after one infix handler
TableInfixLoop_once(p, left_exp, precedence) ==
    IF p.raised # "" THEN Parsed(p, None)
    ELSE IF p.current_token.type # "EOF" /\ precedence < current_table_precedence(p)
    THEN (IF table_infix_parse_fn(p.current_token.type) = "" THEN Parsed(p, left_exp)
          ELSE TableInfixCall(table_infix_parse_fn(p.current_token.type), p, left_exp))
    ELSE Parsed(p, left_exp)

\* the while loop of parse_table_expression
TableInfixLoop(p, left_exp, precedence) ==
    IF p.raised # "" THEN Parsed(p, None)
    ELSE IF p.current_token.type # "EOF" /\ precedence < current_table_precedence(p)
    THEN (IF table_infix_parse_fn(p.current_token.type) = "" THEN Parsed(p, left_exp)
          ELSE Do(TableInfixCall(table_infix_parse_fn(p.current_token.type), p, left_exp),
                  LAMBDA next : TableInfixLoop(next.p, next.node, precedence)))
    ELSE Parsed(p, left_exp)

\* Pratt parser algorithm
parse_table_expression(p, precedence) ==
    IF p.raised # "" THEN Parsed(p, None)
    ELSE IF table_prefix_parse_fn(p.current_token.type) = ""
    THEN Parsed(Raise(p, "ParseError", p.current_token.type), None)
    ELSE Do(TablePrefixCall(table_prefix_parse_fn(p.current_token.type), p),
            LAMBDA left_exp : TableInfixLoop(left_exp.p, left_exp.node, precedence))

\* the while True loop of parse_results_clause, parse_group_by_clause and
\* parse_order_by_clause, from the parser at the start of an expression
RECURSIVE ExpressionList(_, _)
ExpressionList(p, expressions) ==
    Do(parse_column_expression(p, ColumnExpressionPrecedence.LOWEST),
        LAMBDA expression :
    IF expression.p.raised # "" THEN [p |-> expression.p, list |-> expressions]
    ELSE
    Do(parse_whitespace(expression.p), LAMBDA t :
    Do(Append(expressions,
        dataclasses_replace(expression.node, [trailing |-> t.w]).node),
        LAMBDA more :
    IF t.p.current_token.type = "COMMA"
    THEN ExpressionList(Parser_next_token(t.p), more)
    ELSE [p |-> t.p, list |-> more])))

parse_results_clause(p) ==
    Do(ExpressionList(Cleared(p), <<>>), LAMBDA expressions :
    Parsed(expressions.p, ResultsClause(preceding(p), expressions.list, <<>>)))

parse_from_clause(p) ==
    Do(parse_keyword(AssertCurrent(Cleared(p), {"FROM"})), LAMBDA from_ :
    Do(parse_table_expression(from_.p, TableExpressionPrecedence.LOWEST),
        LAMBDA expression :
    Do(parse_whitespace(expression.p), LAMBDA t :
    Parsed(t.p, FromClause(preceding(p), from_.node, expression.node, t.w)))))

parse_where_clause(p) ==
    Do(parse_keyword(AssertCurrent(Cleared(p), {"WHERE"})), LAMBDA where :
    Do(parse_column_expression(where.p, ColumnExpressionPrecedence.LOWEST),
        LAMBDA expression :
    Do(parse_whitespace(expression.p), LAMBDA t :
    Parsed(t.p, WhereClause(preceding(p), where.node, expression.node, t.w)))))

parse_group_by_clause(p) ==
    Do(parse_keyword(AssertCurrent(Cleared(p), {"GROUP"})), LAMBDA group :
    Do(parse_keyword(AssertCurrent(group.p, {"BY"})), LAMBDA by :
    Do(ExpressionList(by.p, <<>>), LAMBDA expressions :
    Parsed(expressions.p,
           GroupByClause(preceding(p), group.node, by.node, expressions.list, <<>>)))))

parse_having_clause(p) ==
    Do(parse_keyword(AssertCurrent(Cleared(p), {"HAVING"})), LAMBDA having :
    Do(parse_column_expression(having.p, ColumnExpressionPrecedence.LOWEST),
        LAMBDA expression :
    Do(parse_whitespace(expression.p), LAMBDA t :
    Parsed(t.p, HavingClause(preceding(p), having.node, expression.node, t.w)))))

parse_order_by_clause(p) ==
    Do(parse_keyword(AssertCurrent(Cleared(p), {"ORDER"})), LAMBDA order :
    Do(parse_keyword(AssertCurrent(order.p, {"BY"})), LAMBDA by :
    Do(ExpressionList(by.p, <<>>), LAMBDA expressions :
    Parsed(expressions.p,
           OrderByClause(preceding(p), order.node, by.node, expressions.list, <<>>)))))

parse_limit_clause(p) ==
    Do(parse_keyword(AssertCurrent(Cleared(p), {"LIMIT"})), LAMBDA limit :
    Do(parse_column_expression(limit.p, ColumnExpressionPrecedence.LOWEST),
        LAMBDA expression :
    Do(parse_whitespace(expression.p), LAMBDA t :
    Parsed(Parser_next_token(t.p), LimitClause(preceding(p), limit.node, expression.node, t.w)))))

\* clause() if self.current_token.type == keyword else None
Optional(p, keyword, clause) ==
    IF p.raised = "" /\ p.current_token.type = keyword THEN clause ELSE Parsed(p, None)

\* parse_select trying WHERE before FROM
parse_select_where_first(p) ==
    Do(parse_keyword(AssertCurrent(Cleared(p), {"SELECT"})), LAMBDA select :
    Do(parse_results_clause(select.p), LAMBDA results :
    Do(Optional(results.p, "WHERE", parse_where_clause(results.p)), LAMBDA where :
    Do(Optional(where.p, "FROM", parse_from_clause(where.p)), LAMBDA from_ :
    Do(Optional(from_.p, "GROUP", parse_group_by_clause(from_.p)), LAMBDA group_by :
    Do(Optional(group_by.p, "HAVING", parse_having_clause(group_by.p)),
        LAMBDA having :
    Do(Optional(having.p, "ORDER", parse_order_by_clause(having.p)), LAMBDA order_by :
    Do(Optional(order_by.p, "LIMIT", parse_limit_clause(order_by.p)), LAMBDA limit :
    Do(parse_whitespace(limit.p), LAMBDA t :
    Parsed(t.p,
           Select(preceding(p), select.node, results.node, from_.node, where.node,
                  group_by.node, having.node, order_by.node, limit.node, t.w)))))))))))

parse_select(p) ==
    Do(parse_keyword(AssertCurrent(Cleared(p), {"SELECT"})), LAMBDA select :
    Do(parse_results_clause(select.p), LAMBDA results :
    Do(Optional(results.p, "FROM", parse_from_clause(results.p)), LAMBDA from_ :
    Do(Optional(from_.p, "WHERE", parse_where_clause(from_.p)), LAMBDA where :
    Do(Optional(where.p, "GROUP", parse_group_by_clause(where.p)), LAMBDA group_by :
    Do(Optional(group_by.p, "HAVING", parse_having_clause(group_by.p)),
        LAMBDA having :
    Do(Optional(having.p, "ORDER", parse_order_by_clause(having.p)), LAMBDA order_by :
    Do(Optional(order_by.p, "LIMIT", parse_limit_clause(order_by.p)), LAMBDA limit :
    Do(parse_whitespace(limit.p), LAMBDA t :
    Parsed(t.p,
           Select(preceding(p), select.node, results.node, from_.node, where.node,
                  group_by.node, having.node, order_by.node, limit.node, t.w)))))))))))

\* ------------------------------------------------------------------------
\* Rendering (ast.py, string and original_string)
\* ------------------------------------------------------------------------

RECURSIVE string(_)
RECURSIVE original_string(_)

Strings(nodes) == [i \in 1..Len(nodes) |-> string(nodes[i])]

OriginalStrings(nodes) == [i \in 1..Len(nodes) |-> original_string(nodes[i])]

\* the items of a list that are not the empty text
RECURSIVE NonEmpty(_)
NonEmpty(texts) ==
    IF texts = <<>> THEN <<>>
    ELSE IF Head(texts) = <<>> THEN NonEmpty(Tail(texts))
    ELSE <<Head(texts)>> \o NonEmpty(Tail(texts))

\* x.string() if x else ""
StringOrEmpty(n) == IF n = None THEN <<>> ELSE string(n)

OriginalOrEmpty(n) == IF n = None THEN <<>> ELSE original_string(n)

\* the render of an alias with AS as the source spells it
AliasString_as_spelled(n) ==
    string(n.value)
    \o (IF n.as_ # None THEN <<" ">> \o n.as_.literal \o <<" ">> ELSE <<" ">>)
    \o n.alias

AliasString(n) ==
    string(n.value)
    \o (IF n.as_ # None THEN <<" ">> \o string(n.as_) \o <<" ">> ELSE <<" ">>)
    \o n.alias

AliasOriginalString(n) ==
    Concat(n.preceding) \o original_string(n.value)
    \o (IF n.as_ # None THEN original_string(n.as_) ELSE <<>>)
    \o n.alias \o Concat(n.trailing)

string(n) ==
    CASE n.kind = "Keyword" -> upper(n.literal)
      [] n.kind = "ColumnLiteral" -> n.literal
      [] n.kind = "ColumnPrefixExpression" ->
            string(n.operator) \o <<" ">> \o string(n.right)
      [] n.kind = "ColumnInfixExpression" ->
            string(n.left) \o <<" ">> \o string(n.operator) \o <<" ">> \o string(n.right)
      [] n.kind = "ColumnGroupExpression" ->
            <<"(">> \o string(n.expression) \o <<")">>
      [] n.kind = "ColumnBetweenExpression" ->
            string(n.left) \o <<" ">> \o string(n.between) \o <<" ">> \o string(n.start)
            \o <<" ">> \o string(n.and_) \o <<" ">> \o string(n.end)
      [] n.kind = "ColumnIdentifier" ->
            Qualifier(n.schema) \o Qualifier(n.table) \o n.column
      [] n.kind = "ColumnCallExpression" ->
            string(n.function) \o <<"(">> \o Join(<<",", " ">>, Strings(n.arguments))
            \o <<")">>
      [] n.kind = "ColumnAlias" -> AliasString(n)
      [] n.kind = "ColumnOrderExpression" ->
            string(n.value) \o <<" ">> \o string(n.order)
      [] n.kind = "ResultsClause" -> Join(<<",", " ">>, Strings(n.expressions))
      [] n.kind = "FromClause" -> string(n.from_) \o <<" ">> \o string(n.expression)
      [] n.kind = "WhereClause" -> string(n.where) \o <<" ">> \o string(n.expression)
      [] n.kind = "GroupByClause" ->
            string(n.group) \o <<" ">> \o string(n.by) \o <<" ">>
            \o Join(<<",", " ">>, Strings(n.expressions))
      [] n.kind = "HavingClause" -> string(n.having) \o <<" ">> \o string(n.expression)
      [] n.kind = "OrderByClause" ->
            string(n.order) \o <<" ">> \o string(n.by) \o <<" ">>
            \o Join(<<",", " ">>, Strings(n.expressions))
      [] n.kind = "LimitClause" -> string(n.limit) \o <<" ">> \o string(n.expression)
      [] n.kind = "Select" ->
            Join(<<" ">>,
                 NonEmpty(<<string(n.select), string(n.results),
                            StringOrEmpty(n.from_), StringOrEmpty(n.where),
                            StringOrEmpty(n.group_by), StringOrEmpty(n.having),
                            StringOrEmpty(n.order_by), StringOrEmpty(n.limit)>>))
      [] n.kind = "TableIdentifier" -> Qualifier(n.schema) \o n.table
      [] n.kind = "TableAlias" -> AliasString(n)
      [] n.kind = "TableJoinExpression" ->
            string(n.left) \o <<" ">> \o string(n.join) \o <<" ">> \o string(n.right)
            \o <<" ">> \o string(n.on) \o <<" ">> \o string(n.condition)

original_string(n) ==
    CASE n.kind = "Keyword" -> Concat(n.preceding) \o n.literal \o Concat(n.trailing)
      [] n.kind = "ColumnLiteral" ->
            Concat(n.preceding) \o n.literal \o Concat(n.trailing)
      [] n.kind = "ColumnPrefixExpression" ->
            Concat(n.preceding) \o original_string(n.operator)
            \o original_string(n.right) \o Concat(n.trailing)
      [] n.kind = "ColumnInfixExpression" ->
            Concat(n.preceding) \o original_string(n.left)
            \o original_string(n.operator) \o original_string(n.right)
            \o Concat(n.trailing)
      [] n.kind = "ColumnGroupExpression" ->
            Concat(n.preceding) \o <<"(">> \o original_string(n.expression) \o <<")">>
            \o Concat(n.trailing)
      [] n.kind = "ColumnBetweenExpression" ->
            Concat(n.preceding) \o original_string(n.left)
            \o original_string(n.between) \o original_string(n.start)
            \o original_string(n.and_) \o original_string(n.end) \o Concat(n.trailing)
      [] n.kind = "ColumnIdentifier" ->
            Concat(n.preceding) \o Qualifier(n.schema) \o Qualifier(n.table)
            \o n.column \o Concat(n.trailing)
      [] n.kind = "ColumnCallExpression" ->
            Concat(n.preceding) \o original_string(n.function) \o <<"(">>
            \o Join(<<",">>, OriginalStrings(n.arguments)) \o <<")">>
            \o Concat(n.trailing)
      [] n.kind = "ColumnAlias" -> AliasOriginalString(n)
      [] n.kind = "ColumnOrderExpression" ->
            Concat(n.preceding) \o original_string(n.value)
            \o original_string(n.order) \o Concat(n.trailing)
      [] n.kind = "ResultsClause" ->
            Concat(n.preceding) \o Join(<<",">>, OriginalStrings(n.expressions))
            \o Concat(n.trailing)
      [] n.kind = "FromClause" ->
            Concat(n.preceding) \o original_string(n.from_)
            \o original_string(n.expression) \o Concat(n.trailing)
      [] n.kind = "WhereClause" ->
            Concat(n.preceding) \o original_string(n.where)
            \o original_string(n.expression) \o Concat(n.trailing)
      [] n.kind = "GroupByClause" ->
            Concat(n.preceding) \o original_string(n.group) \o original_string(n.by)
            \o Join(<<",">>, OriginalStrings(n.expressions)) \o Concat(n.trailing)
      [] n.kind = "HavingClause" ->
            Concat(n.preceding) \o original_string(n.having)
            \o original_string(n.expression) \o Concat(n.trailing)
      [] n.kind = "OrderByClause" ->
            Concat(n.preceding) \o original_string(n.order) \o original_string(n.by)
            \o Join(<<",">>, OriginalStrings(n.expressions)) \o Concat(n.trailing)
      [] n.kind = "LimitClause" ->
            Concat(n.preceding) \o original_string(n.limit)
            \o original_string(n.expression) \o Concat(n.trailing)
      [] n.kind = "Select" ->
            Concat(NonEmpty(<<Concat(n.preceding), original_string(n.select),
                              original_string(n.results), OriginalOrEmpty(n.from_),
                              OriginalOrEmpty(n.where), OriginalOrEmpty(n.group_by),
                              OriginalOrEmpty(n.having), OriginalOrEmpty(n.order_by),
                              OriginalOrEmpty(n.limit), Concat(n.trailing)>>))
      [] n.kind = "TableIdentifier" ->
            Concat(n.preceding) \o Qualifier(n.schema) \o n.table \o Concat(n.trailing)
      [] n.kind = "TableAlias" -> AliasOriginalString(n)
      [] n.kind = "TableJoinExpression" ->
            Concat(n.preceding) \o original_string(n.left) \o original_string(n.join)
            \o original_string(n.right) \o original_string(n.on)
            \o original_string(n.condition) \o Concat(n.trailing)

\* ------------------------------------------------------------------------
\* Objects.  Python builds one object per node; a field that holds a node
\* holds a reference to it.  The heap is the sequence of the objects built,
\* an object being the node's record with every child replaced by the
\* child's position in the heap, 0 where the field is None.
\* ------------------------------------------------------------------------

\* the fields declared to hold a node, in declaration order
NodeFields(kind) ==
    CASE kind = "ColumnPrefixExpression" -> <<"operator", "right">>
      [] kind = "ColumnInfixExpression" -> <<"left", "operator", "right">>
      [] kind = "ColumnGroupExpression" -> <<"expression">>
      [] kind = "ColumnBetweenExpression" -> <<"left", "between", "start", "and_", "end">>
      [] kind = "ColumnCallExpression" -> <<"function">>
      [] kind = "ColumnAlias" -> <<"value", "as_">>
      [] kind = "ColumnOrderExpression" -> <<"value", "order">>
      [] kind = "FromClause" -> <<"from_", "expression">>
      [] kind = "WhereClause" -> <<"where", "expression">>
      [] kind = "GroupByClause" -> <<"group", "by">>
      [] kind = "HavingClause" -> <<"having", "expression">>
      [] kind = "OrderByClause" -> <<"order", "by">>
      [] kind = "LimitClause" -> <<"limit", "expression">>
      [] kind = "Select" -> <<"select", "results", "from_", "where", "group_by",
                              "having", "order_by", "limit">>
      [] kind = "TableAlias" -> <<"value", "as_">>
      [] kind = "TableJoinExpression" -> <<"left", "join", "right", "on", "condition">>
      [] OTHER -> <<>>

\* the field declared to hold a list of nodes, "" when the class has none
ListField(kind) ==
    CASE kind = "ColumnCallExpression" -> "arguments"
      [] kind \in {"ResultsClause", "GroupByClause", "OrderByClause"} -> "expressions"
      [] OTHER -> ""

\* the nodes a node holds: those of its node fields (None where absent), then
\* those of its list
Children(n) ==
    [i \in 1..Len(NodeFields(n.kind)) |-> n[NodeFields(n.kind)[i]]]
    \o (IF ListField(n.kind) = "" THEN <<>> ELSE n[ListField(n.kind)])

\* a dict is the sequence of its items, in insertion order
Item(key, value) == [key |-> key, value |-> value]

RECURSIVE str(_)

\* str(index): the decimal digits of a natural number
str(index) ==
    IF index < 10
    THEN <<"0", "1", "2", "3", "4", "5", "6", "7", "8", "9">>[index + 1]
    ELSE str(index \div 10) \o str(index % 10)

\* Node.child_nodes: the fields whose value is a node, under their names, in
\* declaration order (a dict is the sequence of its items)
Node_child_nodes(self) ==
    SelectSeq([i \in 1..Len(NodeFields(self.kind)) |->
                  Item(NodeFields(self.kind)[i], self[NodeFields(self.kind)[i]])],
              LAMBDA item : item.value # None)

\* the child_nodes of ColumnCallExpression, ResultsClause, GroupByClause and
\* OrderByClause: the elements of the list, under their indexes
List_child_nodes(self) ==
    [i \in 1..Len(self[ListField(self.kind)]) |->
        Item(str(i - 1), self[ListField(self.kind)][i])]

child_nodes(self) ==
    IF ListField(self.kind) = "" THEN Node_child_nodes(self)
    ELSE List_child_nodes(self)

RECURSIVE Size(_)
RECURSIVE SizeUpTo(_, _)
RECURSIVE Objects(_, _)
RECURSIVE ObjectsFrom(_, _, _)

\* how many objects the tree of n is made of
Size(n) == IF n = None THEN 0 ELSE 1 + SizeUpTo(Children(n), Len(Children(n)))

\* how many objects the first k of nodes are made of
SizeUpTo(nodes, k) ==
    IF k = 0 THEN 0 ELSE SizeUpTo(nodes, k - 1) + Size(nodes[k])

\* the objects of the nodes from the k-th on, built after base objects
ObjectsFrom(nodes, k, base) ==
    IF k > Len(nodes) THEN <<>>
    ELSE Objects(nodes[k], base + SizeUpTo(nodes, k - 1))
         \o ObjectsFrom(nodes, k + 1, base)

\* the objects of the tree of n built after base objects, children first:
\* the object of n is the last
Objects(n, base) ==
    IF n = None THEN <<>>
    ELSE LET fields == NodeFields(n.kind)
             list == ListField(n.kind)
             children == Children(n)
             Ref(k) == IF children[k] = None THEN 0
                       ELSE base + SizeUpTo(children, k)
             Index(f) == CHOOSE i \in 1..Len(fields) : fields[i] = f
             obj == [f \in DOMAIN n |->
                        IF \E i \in 1..Len(fields) : fields[i] = f THEN Ref(Index(f))
                        ELSE IF f = list
                        THEN [i \in 1..Len(n[list]) |-> Ref(Len(fields) + i)]
                        ELSE n[f]]
         IN  ObjectsFrom(children, 1, base) \o <<obj>>

\* the object of node n built on top of heap
Alloc(heap, n) ==
    [heap |-> heap \o Objects(n, Len(heap)), id |-> Len(heap) + Size(n)]

\* int(field, 10), for the keys the model uses
int(field) ==
    Do("0" :> 0 @@ "1" :> 1 @@ "2" :> 2 @@ "3" :> 3 @@ "4" :> 4, LAMBDA value :
    IF field \in DOMAIN value THEN [raised |-> "", value |-> value[field]]
    ELSE [raised |-> "ValueError", value |-> 0])

Keys(changes) == {changes[i].key : i \in 1..Len(changes)}

\* **changes
Kwargs(changes) ==
    [k \in Keys(changes) |->
        changes[CHOOSE i \in 1..Len(changes) : changes[i].key = k].value]

\* Node.replace
Node_replace(self, changes) == dataclasses_replace(self, Kwargs(changes))

\* the for loop of ColumnCallExpression.replace, ResultsClause.replace,
\* GroupByClause.replace and OrderByClause.replace from item i on: the
\* exception it raises and the result it holds at its end
RECURSIVE ReplaceLoop(_, _, _, _, _)
ReplaceLoop(self, changes, named, i, result) ==
    IF i > Len(changes) THEN [raised |-> "", node |-> result]
    ELSE LET field == changes[i].key
             value == changes[i].value
             list == ListField(self.kind)
             index == int(field)
             items == result[list]
             new_items == SubSeq(items, 1, IF index.value < Len(items)
                                           THEN index.value ELSE Len(items))
                          \o <<value>>
                          \o SubSeq(items, index.value + 2, Len(items))
         IN  IF field \in named
             THEN ReplaceLoop(self, changes, named, i + 1,
                              dataclasses_replace(self, field :> value).node)
             ELSE IF index.raised # "" THEN [raised |-> index.raised, node |-> None]
             ELSE ReplaceLoop(self, changes, named, i + 1,
                              dataclasses_replace(self, list :> new_items).node)

\* the replace of the four classes that hold a list: the loop's result is
\* dropped, and the value returned is dataclasses.replace(self, **changes)
List_replace(self, changes, named) ==
    Do(ReplaceLoop(self, changes, named, 1, self), LAMBDA loop :
    IF loop.raised # "" THEN loop
    ELSE dataclasses_replace(self, Kwargs(changes)))

\* node.replace(changes), by the class of node
replace(self, changes) ==
    CASE self.kind = "ColumnCallExpression" ->
            List_replace(self, changes, {"preceding", "trailing", "function"})
      [] self.kind = "ResultsClause" ->
            List_replace(self, changes, {"preceding", "trailing"})
      [] self.kind = "GroupByClause" ->
            List_replace(self, changes, {"preceding", "trailing", "group", "by"})
      [] self.kind = "OrderByClause" ->
            List_replace(self, changes, {"preceding", "trailing", "order", "by"})
      [] OTHER -> Node_replace(self, changes)

\* ------------------------------------------------------------------------
\* Inputs
\* ------------------------------------------------------------------------

\* the longest generated input, in fragments
MaxWords == 3

\* how many times a canonical render is parsed again
MaxReparse == 1

\* the fragments generated inputs are made of
Words ==
    {
     \* a
     <<"a">>,
     \* 1
     <<"1">>,
     \*  
     <<" ">>,
     \* (
     <<"(">>,
     \* )
     <<")">>,
     \* ,
     <<",">>,
     \* -
     <<"-">>,
     \* +
     <<"+">>,
     \* *
     <<"*">>,
     \*  AS 
     <<" ", "A", "S", " ">>,
     \*  LIKE 
     <<" ", "L", "I", "K", "E", " ">>,
     \*  FROM 
     <<" ", "F", "R", "O", "M", " ">>,
     \*  DESC
     <<" ", "D", "E", "S", "C">>,
     \* NULL
     <<"N", "U", "L", "L">>
    }

\* the queries of test_parser.py
TestQueries ==
    {
     \* - 1 + 2 * 3 * 4
     <<"-", " ", "1", " ", "+", " ", "2", " ", "*", " ", "3", " ", "*", " ", "4">>,
     \* - 1 + 2 * 3 + 4
     <<"-", " ", "1", " ", "+", " ", "2", " ", "*", " ", "3", " ", "+", " ", "4">>,
     \* - 1 + 2 * (3 + 4)
     <<"-", " ", "1", " ", "+", " ", "2", " ", "*", " ", "(", "3", " ", "+", " ", "4", ")">>,
     \* x = 1 AND y = 2
     <<"x", " ", "=", " ", "1", " ", "A", "N", "D", " ", "y", " ", "=", " ", "2">>,
     \* x IS NOT NULL
     <<"x", " ", "I", "S", " ", "N", "O", "T", " ", "N", "U", "L", "L">>,
     \* x BETWEEN a AND b
     <<"x", " ", "B", "E", "T", "W", "E", "E", "N", " ", "a", " ", "A", "N", "D", " ", "b">>,
     \* now()
     <<"n", "o", "w", "(", ")">>,
     \* upper('hello') || concat(' ', lower('world'))
     <<"u", "p", "p", "e", "r", "(", "'", "h", "e", "l", "l", "o", "'", ")", " ", "|", "|", " ", "c", "o", "n", "c", "a", "t", "(", "'", " ", "'", ",", " ", "l", "o", "w", "e", "r", "(", "'", "w", "o", "r", "l", "d", "'", ")", ")">>,
     \* x AS y
     <<"x", " ", "A", "S", " ", "y">>,
     \* x y
     <<"x", " ", "y">>,
     \* users AS u
     <<"u", "s", "e", "r", "s", " ", "A", "S", " ", "u">>,
     \* users u
     <<"u", "s", "e", "r", "s", " ", "u">>,
     \* SELECT u.id FROM users u JOIN schools ON u.school_id = schools.id
     <<"S", "E", "L", "E", "C", "T", " ", "u", ".", "i", "d", " ", "F", "R", "O", "M", " ", "u", "s", "e", "r", "s", " ", "u", " ", "J", "O", "I", "N", " ", "s", "c", "h", "o", "o", "l", "s", " ", "O", "N", " ", "u", ".", "s", "c", "h", "o", "o", "l", "_", "i", "d", " ", "=", " ", "s", "c", "h", "o", "o", "l", "s", ".", "i", "d">>,
     \* SELECT COUNT(*) FROM users WHERE is_active IS TRUE GROUP BY country HAVING COUNT(*) > 0 ORDER BY COUNT(*) DESC LIMIT 10
     <<"S", "E", "L", "E", "C", "T", " ", "C", "O", "U", "N", "T", "(", "*", ")", " ", "F", "R", "O", "M", " ", "u", "s", "e", "r", "s", " ", "W", "H", "E", "R", "E", " ", "i", "s", "_", "a", "c", "t", "i", "v", "e", " ", "I", "S", " ", "T", "R", "U", "E", " ", "G", "R", "O", "U", "P", " ", "B", "Y", " ", "c", "o", "u", "n", "t", "r", "y", " ", "H", "A", "V", "I", "N", "G", " ", "C", "O", "U", "N", "T", "(", "*", ")", " ", ">", " ", "0", " ", "O", "R", "D", "E", "R", " ", "B", "Y", " ", "C", "O", "U", "N", "T", "(", "*", ")", " ", "D", "E", "S", "C", " ", "L", "I", "M", "I", "T", " ", "1", "0">>
    }

\* further queries: the cases the specification names
ExampleQueries ==
    {
     \* SELECT x AS y
     <<"S", "E", "L", "E", "C", "T", " ", "x", " ", "A", "S", " ", "y">>,
     \* SELECT x y
     <<"S", "E", "L", "E", "C", "T", " ", "x", " ", "y">>,
     \* SELECT a DESC
     <<"S", "E", "L", "E", "C", "T", " ", "a", " ", "D", "E", "S", "C">>,
     \* SELECT ( 1 )
     <<"S", "E", "L", "E", "C", "T", " ", "(", " ", "1", " ", ")">>,
     \* SELECT f (1)
     <<"S", "E", "L", "E", "C", "T", " ", "f", " ", "(", "1", ")">>,
     \* SELECT f( )
     <<"S", "E", "L", "E", "C", "T", " ", "f", "(", " ", ")">>,
     \* SELECT (1 ), b
     <<"S", "E", "L", "E", "C", "T", " ", "(", "1", " ", ")", ",", " ", "b">>,
     \* SELECT a LIKE b
     <<"S", "E", "L", "E", "C", "T", " ", "a", " ", "L", "I", "K", "E", " ", "b">>,
     \* SELECT a IN b
     <<"S", "E", "L", "E", "C", "T", " ", "a", " ", "I", "N", " ", "b">>,
     \* SELECT 1 WHERE x FROM t
     <<"S", "E", "L", "E", "C", "T", " ", "1", " ", "W", "H", "E", "R", "E", " ", "x", " ", "F", "R", "O", "M", " ", "t">>,
     \* SELECT 1 )
     <<"S", "E", "L", "E", "C", "T", " ", "1", " ", ")">>,
     \* SELECT 1 FROM LEFT(
     <<"S", "E", "L", "E", "C", "T", " ", "1", " ", "F", "R", "O", "M", " ", "L", "E", "F", "T", "(">>,
     \* a - b
     <<"a", " ", "-", " ", "b">>,
     \* a - b * c
     <<"a", " ", "-", " ", "b", " ", "*", " ", "c">>,
     \* a + b * c
     <<"a", " ", "+", " ", "b", " ", "*", " ", "c">>,
     \* NOT x = 1
     <<"N", "O", "T", " ", "x", " ", "=", " ", "1">>,
     \* NOT a AND b
     <<"N", "O", "T", " ", "a", " ", "A", "N", "D", " ", "b">>,
     \* f(a, b)
     <<"f", "(", "a", ",", " ", "b", ")">>,
     \* f(a, b, c)
     <<"f", "(", "a", ",", " ", "b", ",", " ", "c", ")">>,
     \* SELECT a, b
     <<"S", "E", "L", "E", "C", "T", " ", "a", ",", " ", "b">>,
     \* SELECT a FROM t GROUP BY a, b ORDER BY a, b
     <<"S", "E", "L", "E", "C", "T", " ", "a", " ", "F", "R", "O", "M", " ", "t", " ", "G", "R", "O", "U", "P", " ", "B", "Y", " ", "a", ",", " ", "b", " ", "O", "R", "D", "E", "R", " ", "B", "Y", " ", "a", ",", " ", "b">>,
     \* a + b c
     <<"a", " ", "+", " ", "b", " ", "c">>,
     \* a + b AS c
     <<"a", " ", "+", " ", "b", " ", "A", "S", " ", "c">>,
     \* a JOIN b ON c
     <<"a", " ", "J", "O", "I", "N", " ", "b", " ", "O", "N", " ", "c">>,
     \* a JOIN b ON c x
     <<"a", " ", "J", "O", "I", "N", " ", "b", " ", "O", "N", " ", "c", " ", "x">>,
     \* a JOIN b ON c AS x
     <<"a", " ", "J", "O", "I", "N", " ", "b", " ", "O", "N", " ", "c", " ", "A", "S", " ", "x">>,
     \* users u JOIN schools ON c
     <<"u", "s", "e", "r", "s", " ", "u", " ", "J", "O", "I", "N", " ", "s", "c", "h", "o", "o", "l", "s", " ", "O", "N", " ", "c">>,
     \* a JOIN b ON c JOIN d ON e
     <<"a", " ", "J", "O", "I", "N", " ", "b", " ", "O", "N", " ", "c", " ", "J", "O", "I", "N", " ", "d", " ", "O", "N", " ", "e">>,
     \* SELECT 1 $
     <<"S", "E", "L", "E", "C", "T", " ", "1", " ", "$">>,
     \* SELECT $
     <<"S", "E", "L", "E", "C", "T", " ", "$">>,
     \* SELECT a FROM t;
     <<"S", "E", "L", "E", "C", "T", " ", "a", " ", "F", "R", "O", "M", " ", "t", ";">>,
     \* x FROM t
     <<"x", " ", "F", "R", "O", "M", " ", "t">>,
     \* SELECT a FROM t GROUP a
     <<"S", "E", "L", "E", "C", "T", " ", "a", " ", "F", "R", "O", "M", " ", "t", " ", "G", "R", "O", "U", "P", " ", "a">>,
     \* SELECT a FROM t ORDER a
     <<"S", "E", "L", "E", "C", "T", " ", "a", " ", "F", "R", "O", "M", " ", "t", " ", "O", "R", "D", "E", "R", " ", "a">>,
     \* x BETWEEN a b
     <<"x", " ", "B", "E", "T", "W", "E", "E", "N", " ", "a", " ", "b">>,
     \* a JOIN b c
     <<"a", " ", "J", "O", "I", "N", " ", "b", " ", "c">>,
     \* (1
     <<"(", "1">>,
     \* x AS 1
     <<"x", " ", "A", "S", " ", "1">>,
     \* SELECT
     <<"S", "E", "L", "E", "C", "T">>,
     \* SELECT FROM t
     <<"S", "E", "L", "E", "C", "T", " ", "F", "R", "O", "M", " ", "t">>,
     \* SELECT a, FROM t
     <<"S", "E", "L", "E", "C", "T", " ", "a", ",", " ", "F", "R", "O", "M", " ", "t">>,
     \* SELECT 1 -- c\nFROM t
     <<"S", "E", "L", "E", "C", "T", " ", "1", " ", "-", "-", " ", "c", "\n", "F", "R", "O", "M", " ", "t">>,
     \* SELECT 1 FROM t
     <<"S", "E", "L", "E", "C", "T", " ", "1", " ", "F", "R", "O", "M", " ", "t">>,
     \* a.b.c
     <<"a", ".", "b", ".", "c">>,
     \* a.b
     <<"a", ".", "b">>,
     \* a.b.c.d
     <<"a", ".", "b", ".", "c", ".", "d">>,
     \* s.t u
     <<"s", ".", "t", " ", "u">>,
     \* a IN b
     <<"a", " ", "I", "N", " ", "b">>,
     \* a ILIKE b
     <<"a", " ", "I", "L", "I", "K", "E", " ", "b">>,
     \* a NOT b
     <<"a", " ", "N", "O", "T", " ", "b">>,
     \* a + b LIKE c
     <<"a", " ", "+", " ", "b", " ", "L", "I", "K", "E", " ", "c">>,
     \* -a LIKE b
     <<"-", "a", " ", "L", "I", "K", "E", " ", "b">>,
     \* a JOIN b x ON c
     <<"a", " ", "J", "O", "I", "N", " ", "b", " ", "x", " ", "O", "N", " ", "c">>,
     \* a JOIN b JOIN c ON d ON e
     <<"a", " ", "J", "O", "I", "N", " ", "b", " ", "J", "O", "I", "N", " ", "c", " ", "O", "N", " ", "d", " ", "O", "N", " ", "e">>,
     \* concat(' ', lower('world'))
     <<"c", "o", "n", "c", "a", "t", "(", "'", " ", "'", ",", " ", "l", "o", "w", "e", "r", "(", "'", "w", "o", "r", "l", "d", "'", ")", ")">>,
     \* f(a b)
     <<"f", "(", "a", " ", "b", ")">>,
     \* f(a,)
     <<"f", "(", "a", ",", ")">>,
     \* f(a
     <<"f", "(", "a">>,
     \* f(a LIKE b)
     <<"f", "(", "a", " ", "L", "I", "K", "E", " ", "b", ")">>,
     \* f(a, b
     <<"f", "(", "a", ",", " ", "b">>,
     \* f(g(a), h(b, c))
     <<"f", "(", "g", "(", "a", ")", ",", " ", "h", "(", "b", ",", " ", "c", ")", ")">>,
     \* f (a , b )
     <<"f", " ", "(", "a", " ", ",", " ", "b", " ", ")">>,
     \* SELECT a LIMIT 1 ;
     <<"S", "E", "L", "E", "C", "T", " ", "a", " ", "L", "I", "M", "I", "T", " ", "1", " ", ";">>,
     \* SELECT a LIMIT 1 FROM t
     <<"S", "E", "L", "E", "C", "T", " ", "a", " ", "L", "I", "M", "I", "T", " ", "1", " ", "F", "R", "O", "M", " ", "t">>,
     \* SELECT a LIMIT 1
     <<"S", "E", "L", "E", "C", "T", " ", "a", " ", "L", "I", "M", "I", "T", " ", "1">>
    }

\* the lexemes of the tokens handled by parse_column_infix_expression
InfixOperators ==
    {<<"A", "N", "D">>,
     <<"O", "R">>,
     <<"I", "S">>,
     <<"=">>,
     <<"!", "=">>,
     <<"<", ">">>,
     <<">">>,
     <<"<">>,
     <<">", "=">>,
     <<"<", "=">>,
     <<"+">>,
     <<"M", "I", "N", "U", "S">>,
     <<"*">>,
     <<"/">>,
     <<":", ":">>,
     <<"|", "|">>}

WordLists == UNION {[1..n -> Words] : n \in 0..MaxWords}

Bodies == {Concat(ws) : ws \in WordLists}

\* x o1 y o2 z
Ternary(o1, o2) ==
    <<"x", " ">> \o o1 \o <<" ", "y", " ">> \o o2 \o <<" ", "z">>

\* (x o1 y) o2 z
GroupLeft(o1, o2) ==
    <<"(", "x", " ">> \o o1 \o <<" ", "y", ")", " ">> \o o2 \o <<" ", "z">>

\* x o1 (y o2 z)
GroupRight(o1, o2) ==
    <<"x", " ">> \o o1 \o <<" ", "(", "y", " ">> \o o2 \o <<" ", "z", ")">>

OperatorQueries ==
    {Ternary(o1, o2) : o1 \in InfixOperators, o2 \in InfixOperators}
    \cup {GroupLeft(o1, o2) : o1 \in InfixOperators, o2 \in InfixOperators}
    \cup {GroupRight(o1, o2) : o1 \in InfixOperators, o2 \in InfixOperators}

Queries == TestQueries \cup ExampleQueries

Inputs ==
    Bodies \cup {<<"S", "E", "L", "E", "C", "T", " ">> \o b : b \in Bodies}
    \cup OperatorQueries \cup Queries

\* ------------------------------------------------------------------------
\* The state machine: a Parser is constructed on an input and one of its
\* entry points is called; the tree it returns is rendered and parsed
\* again, or one of its nodes is edited with replace.
\* ------------------------------------------------------------------------

VARIABLES
    input,      \* the text given to the Lexer
    parser,     \* the Parser
    entry,      \* the entry point called, "" before the call
    gen,        \* how many times the input has been a canonical render
    status,     \* "constructed", "returned", "raised" or "replaced"
    tree,       \* the node returned
    heap,       \* the objects built
    root,       \* the object of tree
    receiver,   \* the object replace was called on
    changes,    \* the changes it was called with
    edited,     \* what replace raised, and the object it returned
    lexer,      \* a Lexer on the same text, driven as test_lexer.py drives it
    calls       \* the calls made on it: where each began and what it returned

vars ==
    <<input, parser, entry, gen, status, tree, heap, root, receiver, changes, edited,
      lexer, calls>>

Constructed(text) ==
    /\ input = text
    /\ parser = Parser(Lexer(text))
    /\ entry = ""
    /\ gen = 0
    /\ status = IF parser.raised = "" THEN "constructed" ELSE "raised"
    /\ tree = None
    /\ heap = <<>>
    /\ root = 0
    /\ receiver = 0
    /\ changes = <<>>
    /\ edited = [raised |-> "", id |-> 0]
    /\ lexer = Lexer(text)
    /\ calls = <<>>

Init == \E text \in Inputs : Constructed(text)

InitQueries == \E text \in Queries : Constructed(text)

\* the call of an entry point ends: r is what it leaves
Called(name, r) ==
    /\ status = "constructed"
    /\ entry \in {"", name}
    /\ entry' = name
    /\ parser' = r.p
    /\ tree' = r.node
    /\ status' = IF parser'.raised = "" THEN "returned" ELSE "raised"
    /\ heap' = IF parser'.raised = "" THEN Alloc(<<>>, tree').heap ELSE <<>>
    /\ root' = IF parser'.raised = "" THEN Alloc(<<>>, tree').id ELSE 0
    /\ UNCHANGED <<input, gen, receiver, changes, edited, lexer, calls>>

ParseSelect == Called("parse_select", parse_select(parser))

ParseColumnExpression ==
    Called("parse_column_expression",
           parse_column_expression(parser, ColumnExpressionPrecedence.LOWEST))

ParseTableExpression ==
    Called("parse_table_expression",
           parse_table_expression(parser, TableExpressionPrecedence.LOWEST))

\* Parser(Lexer(result.string())), as assertParsedAll compares string() with
\* the input
Reparse ==
    /\ status = "returned"
    /\ gen < MaxReparse
    /\ input' = string(tree)
    /\ parser' = Parser(Lexer(input'))
    /\ gen' = gen + 1
    /\ status' = IF parser'.raised = "" THEN "constructed" ELSE "raised"
    /\ tree' = None
    /\ heap' = <<>>
    /\ root' = 0
    /\ lexer' = Lexer(input')
    /\ calls' = <<>>
    /\ UNCHANGED <<entry, receiver, changes, edited>>

\* the objects replace is called on: the root and its children
Receivers ==
    {root}
    \cup ({heap[root][NodeFields(heap[root].kind)[i]] :
            i \in 1..Len(NodeFields(heap[root].kind))} \ {0})
    \cup (IF ListField(heap[root].kind) = "" THEN {}
          ELSE {heap[root][ListField(heap[root].kind)][i] :
                  i \in 1..Len(heap[root][ListField(heap[root].kind)])})

\* the node the caller builds to put in
NewNode == ColumnLiteral(<<>>, <<"0">>, <<>>)

\* the dicts of changes the caller passes for object o, new being the
\* reference to NewNode
ChangesFor(o, new) ==
    <<<<Item("trailing", << <<"\n">> >>)>>,
      <<Item("preceding", << <<" ">> >>), Item("trailing", <<>>)>>,
      <<Item("0", new)>>,
      <<Item("1", new)>>,
      <<Item("1", new), Item("trailing", <<>>)>>>>
    \o [i \in 1..Len(NodeFields(o.kind)) |-> <<Item(NodeFields(o.kind)[i], new)>>]
    \o (IF ListField(o.kind) = "" THEN <<>>
        ELSE << <<Item(ListField(o.kind), <<new>>)>> >>)

\* node.replace(changes) on a node of the tree returned
Replace ==
    /\ status = "returned"
    /\ \E r \in Receivers :
         LET made == Append(heap, NewNode)
             new == Len(made)
         IN  \E i \in 1..Len(ChangesFor(heap[r], new)) :
               LET c == ChangesFor(heap[r], new)[i]
                   result == replace(made[r], c)
               IN  /\ receiver' = r
                   /\ changes' = c
                   /\ heap' = IF result.raised = "" THEN Append(made, result.node)
                              ELSE made
                   /\ edited' = [raised |-> result.raised,
                                 id |-> IF result.raised = "" THEN Len(made) + 1 ELSE 0]
    /\ status' = "replaced"
    /\ UNCHANGED <<input, parser, entry, gen, tree, root, lexer, calls>>

Next == ParseSelect \/ ParseColumnExpression \/ ParseTableExpression \/ Reparse

Spec == Init /\ [][Next]_vars

NextReplace == ParseSelect \/ ParseColumnExpression \/ ParseTableExpression \/ Replace

SpecReplace == InitQueries /\ [][NextReplace]_vars

\* the fragments the texts given to a Lexer alone are made of
LexerWords ==
    {<<"L", "E", "F", "T">>, <<"l", "e", "f", "t">>, <<"a">>, <<"1">>,
     <<" ">>, <<"(">>, <<".">>, <<"-">>, <<"'">>, <<"\"">>,
     <<"$">>, <<";">>, <<"\r">>}

\* the queries of test_lexer.py
LexerTestQueries ==
    {<<"+", "(", ")">>,
     \* x IS NOT NULL
     <<"x", " ", "I", "S", " ", "N", "O", "T", " ", "N", "U", "L", "L">>,
     \* some_schema."some_table".some_field
     <<"s", "o", "m", "e", "_", "s", "c", "h", "e", "m", "a", ".", "\"", "s", "o", "m",
       "e", "_", "t", "a", "b", "l", "e", "\"", ".", "s", "o", "m", "e", "_", "f", "i",
       "e", "l", "d">>,
     \* LEFT JOIN
     <<"L", "E", "F", "T", " ", "J", "O", "I", "N">>,
     \* LEFT()
     <<"L", "E", "F", "T", "(", ")">>}

\* texts with the tokens of two characters, strings and quoted identifiers
LexerExamples ==
    {\* a<=b
     <<"a", "<", "=", "b">>,
     \* a<>b
     <<"a", "<", ">", "b">>,
     \* a||b
     <<"a", "|", "|", "b">>,
     \* a::b
     <<"a", ":", ":", "b">>,
     \* a!=1
     <<"a", "!", "=", "1">>,
     \* a>=1
     <<"a", ">", "=", "1">>,
     \* a|b
     <<"a", "|", "b">>,
     \* a.
     <<"a", ".">>,
     \* 'it' 'x'
     <<"'", "i", "t", "'", " ", "'", "x", "'">>,
     \* "a b".c
     <<"\"", "a", " ", "b", "\"", ".", "c">>,
     \* a < b
     <<"a", " ", "<", " ", "b">>,
     \* a:b !c > d
     <<"a", ":", "b", " ", "!", "c", " ", ">", " ", "d">>}

LexerInputs ==
    {Concat(ws) : ws \in UNION {[1..n -> LexerWords] : n \in 0..MaxWords}}
    \cup LexerTestQueries \cup LexerExamples

InitLexer == \E text \in LexerInputs : Constructed(text)

\* how many calls are made after the one that returns EOF
MaxAfterEOF == 2

\* a call on the Lexer: at most MaxAfterEOF after the one that returns EOF,
\* and none after a call that does not return
Calling(fn) ==
    /\ calls # <<>> =>
         /\ calls[Len(calls)].fn = fn
         /\ ~calls[Len(calls)].hang
         /\ Len(calls) > MaxAfterEOF => calls[Len(calls) - MaxAfterEOF].t.type # "EOF"
    /\ UNCHANGED <<input, parser, entry, gen, status, tree, heap, root, receiver,
                   changes, edited>>

Call(fn, at, whitespace, r) ==
    [fn |-> fn, at |-> at, whitespace |-> whitespace,
     t |-> IF r.hang THEN Token("", <<>>) ELSE r.t, hang |-> r.hang]

\* t = lexer.next_token()
NextToken ==
    /\ Calling("next_token")
    /\ lexer' = next_token(lexer).l
    /\ calls' = Append(calls, Call("next_token", lexer.char_pos, <<>>, next_token(lexer)))

\* whitespace, t = lexer.next_whitespace_and_token()
NextWhitespaceAndToken ==
    /\ Calling("next_whitespace_and_token")
    /\ lexer' = next_whitespace_and_token(lexer).l
    /\ calls' = Append(calls, Call("next_whitespace_and_token", lexer.char_pos,
                                   IF next_whitespace_and_token(lexer).hang THEN <<>>
                                   ELSE next_whitespace_and_token(lexer).whitespace,
                                   next_whitespace_and_token(lexer)))

NextLexer == NextToken \/ NextWhitespaceAndToken

SpecLexer == InitLexer /\ [][NextLexer]_vars

\* ------------------------------------------------------------------------
\* Properties
\* ------------------------------------------------------------------------

\* the parser's current token is EOF
AtEOF == parser.current_token.type = "EOF"

\* the entry point called has returned a tree
Returned(name) == status = "returned" /\ entry = name

\* the entry point called on text has ended, with a tree or an exception
Ended(name, text) ==
    input = text /\ entry = name /\ status \in {"returned", "raised"} /\ gen = 0

\* C1: round-trip.  Whenever parse_select returns a tree with the current
\* token at EOF, the tree's original_string() is the input, character for
\* character.
C1_RoundTrip ==
    (Returned("parse_select") /\ AtEOF) => original_string(tree) = input

\* C2: complete tree or failure.  Whenever parse_select returns a tree, every
\* significant token has been consumed: the current token is EOF.
C2_CompleteTreeOrFailure ==
    Returned("parse_select") => AtEOF

\* C3: canonical fixed point.  When the input is t.string() of a tree t a
\* parse returned, parsing it again does not fail, ends at EOF, and yields a
\* tree whose string() is the input.
C3_CanonicalFixedPoint ==
    gen >= 1 =>
        /\ status # "raised"
        /\ status = "returned" => (AtEOF /\ string(tree) = input)

\* the literals of the WHITESPACE tokens the lexer emits from l on
RECURSIVE LexedTrivia(_)
LexedTrivia(l) ==
    LET r == next_token(l)
    IN  IF r.hang \/ r.t.type = "EOF" THEN <<>>
        ELSE (IF r.t.type = "WHITESPACE" THEN <<r.t.literal>> ELSE <<>>)
             \o LexedTrivia(r.l)

\* the fragments held by the preceding and trailing lists of the tree of n
RECURSIVE TreeTrivia(_)
RECURSIVE TriviaFrom(_, _)
TreeTrivia(n) ==
    IF n = None THEN <<>>
    ELSE n.preceding \o TriviaFrom(Children(n), 1) \o n.trailing

TriviaFrom(nodes, k) ==
    IF k > Len(nodes) THEN <<>>
    ELSE TreeTrivia(nodes[k]) \o TriviaFrom(nodes, k + 1)

Count(texts, x) == Cardinality({i \in 1..Len(texts) : texts[i] = x})

\* the two lists hold the same fragments, each as many times
SameFragments(s, t) ==
    /\ Len(s) = Len(t)
    /\ \A i \in 1..Len(s) : Count(s, s[i]) = Count(t, s[i])

\* C4: trivia is attached exactly once.  Whenever parse_select returns a
\* tree with the input consumed, the whitespace fragments the lexer emits for
\* the input are the fragments of the tree's preceding and trailing lists,
\* each as many times: none dropped, none duplicated.
C4_TriviaAttachedOnce ==
    (Returned("parse_select") /\ AtEOF) =>
        SameFragments(LexedTrivia(Lexer(input)), TreeTrivia(tree))

\* C8: binary '-' is an infix operator at the sum level.  The type of the
\* token lexed from '-' has the precedence of '+' and an infix handler, 'a -
\* b' parses to one infix expression over all three tokens, and 'a - b * c'
\* to a - (b * c).
C8_BinaryMinusIsInfix ==
    LET minus == next_token(Lexer(<<"-">>)).t.type
    IN  /\ minus \in DOMAIN token_column_precedences
        /\ token_column_precedences[minus] = token_column_precedences["PLUS"]
        /\ column_infix_parse_fn(minus) = "parse_column_infix_expression"
        /\ Ended("parse_column_expression", <<"a", " ", "-", " ", "b">>) =>
              /\ status = "returned" /\ AtEOF
              /\ tree.kind = "ColumnInfixExpression"
              /\ tree.operator.literal = <<"-">>
              /\ string(tree.left) = <<"a">> /\ string(tree.right) = <<"b">>
        /\ Ended("parse_column_expression", <<"a", " ", "-", " ", "b", " ", "*", " ", "c">>) =>
              /\ status = "returned" /\ AtEOF
              /\ tree.kind = "ColumnInfixExpression"
              /\ tree.operator.literal = <<"-">>
              /\ string(tree.left) = <<"a">> /\ string(tree.right) = <<"b", " ", "*", " ", "c">>

\* C9: unary NOT takes effect at the 'not' level.  In 'NOT x = 1' the operand
\* of NOT is the whole comparison x = 1; in 'NOT a AND b' the operand of NOT
\* is only a.
C9_NotAtNotLevel ==
    /\ Ended("parse_column_expression", <<"N", "O", "T", " ", "x", " ", "=", " ", "1">>) =>
          /\ status = "returned" /\ AtEOF
          /\ tree.kind = "ColumnPrefixExpression"
          /\ tree.operator.keyword = "NOT"
          /\ string(tree.right) = <<"x", " ", "=", " ", "1">>
    /\ Ended("parse_column_expression", <<"N", "O", "T", " ", "a", " ", "A", "N", "D", " ", "b">>) =>
          /\ status = "returned" /\ AtEOF
          /\ tree.kind = "ColumnInfixExpression"
          /\ tree.operator.keyword = "AND"
          /\ tree.left.kind = "ColumnPrefixExpression"
          /\ string(tree.left.right) = <<"a">>

\* the object replace was called on, and the object it returned
Receiver == heap[receiver]

Edited == heap[edited.id]

\* C5: indexed replace with structural sharing.  replace with the one key "1"
\* and a new node, on a call expression, ResultsClause, GroupByClause or
\* OrderByClause that holds at least two nodes in its list, does not fail and
\* returns a node whose item 1 is the new node, item 0 and (for a call) the
\* function identifier being the objects of the original.
C5_IndexedReplaceShares ==
    (/\ status = "replaced"
     /\ ListField(Receiver.kind) # ""
     /\ Len(Receiver[ListField(Receiver.kind)]) >= 2
     /\ Len(changes) = 1
     /\ changes[1].key = "1") =>
        /\ edited.raised = ""
        /\ Edited.kind = Receiver.kind
        /\ Edited[ListField(Receiver.kind)][2] = changes[1].value
        /\ Edited[ListField(Receiver.kind)][1] = Receiver[ListField(Receiver.kind)][1]
        /\ Receiver.kind = "ColumnCallExpression" => Edited.function = Receiver.function

\* C6: replace never mutates its receiver.  A call of replace leaves every
\* object built before it as it was, the receiver among them; the node it
\* returns is a new object that holds the values of changes in the fields
\* changes names and, in every other field, what the receiver holds there
\* (for a node, the same object).
C6_ReplaceLeavesReceiver ==
    [][(status = "returned" /\ status' = "replaced") =>
          /\ Len(heap') >= Len(heap)
          /\ \A i \in 1..Len(heap) : heap'[i] = heap[i]
          /\ edited'.raised = "" =>
                /\ edited'.id > Len(heap)
                /\ edited'.id # receiver'
                /\ DOMAIN heap'[edited'.id] = DOMAIN heap[receiver']
                /\ \A f \in DOMAIN heap[receiver'] :
                      heap'[edited'.id][f] =
                          IF f \in Keys(changes') THEN Kwargs(changes')[f]
                          ELSE heap[receiver'][f]]_vars

\* replace has returned a new node for a change of trailing alone, on a node
\* that has preceding trivia: the new node holds the receiver's preceding
C6_Witness ==
    /\ status = "replaced"
    /\ edited.raised = ""
    /\ Keys(changes) = {"trailing"}
    /\ Receiver.preceding # <<>>
    /\ Edited.preceding = Receiver.preceding
    /\ Edited.trailing # Receiver.trailing

\* the tree of a column expression written with every operator application
\* in parentheses and every group in brackets, trivia left out
RECURSIVE Shape(_)
Shape(n) ==
    CASE n.kind = "ColumnInfixExpression" ->
            <<"(">> \o Shape(n.left) \o n.operator.literal \o Shape(n.right) \o <<")">>
      [] n.kind = "ColumnPrefixExpression" ->
            <<"(">> \o n.operator.literal \o Shape(n.right) \o <<")">>
      [] n.kind = "ColumnGroupExpression" ->
            <<"[">> \o Shape(n.expression) \o <<"]">>
      [] OTHER -> string(n)

\* the level of the operator written o
Level(o) == token_column_precedences[next_token(Lexer(o)).t.type]

\* C7: column precedence and associativity.  parse_column_expression returns,
\* for x o1 y o2 z over the binary operators, (x o1 y) o2 z when o1 is of a
\* higher level than o2 or of the same level, and x o1 (y o2 z) when o2 is of
\* a higher level; a parenthesized group is one operand whatever the levels;
\* and the four expressions named parse as stated.
C7_PrecedenceAndAssociativity ==
    (entry = "parse_column_expression" /\ status \in {"returned", "raised"} /\ gen = 0) =>
        /\ input \in OperatorQueries => \A o1 \in InfixOperators, o2 \in InfixOperators :
              /\ input = Ternary(o1, o2) =>
                    /\ status = "returned" /\ AtEOF
                    /\ Shape(tree) =
                          IF Level(o1) >= Level(o2)
                          THEN <<"(", "(", "x">> \o o1 \o <<"y", ")">> \o o2 \o <<"z", ")">>
                          ELSE <<"(", "x">> \o o1 \o <<"(", "y">> \o o2 \o <<"z", ")", ")">>
              /\ input = GroupLeft(o1, o2) =>
                    /\ status = "returned" /\ AtEOF
                    /\ Shape(tree) = <<"(", "[", "(", "x">> \o o1 \o <<"y", ")", "]">> \o o2 \o <<"z", ")">>
              /\ input = GroupRight(o1, o2) =>
                    /\ status = "returned" /\ AtEOF
                    /\ Shape(tree) = <<"(", "x">> \o o1 \o <<"[", "(", "y">> \o o2 \o <<"z", ")", "]", ")">>
        /\ input = <<"-", " ", "1", " ", "+", " ", "2", " ", "*", " ", "3", " ", "+", " ", "4">> =>
              status = "returned" /\ AtEOF /\ Shape(tree) = <<"(", "(", "(", "-", "1", ")", "+", "(", "2", "*", "3", ")", ")", "+", "4", ")">>
        /\ input = <<"-", " ", "1", " ", "+", " ", "2", " ", "*", " ", "3", " ", "*", " ", "4">> =>
              status = "returned" /\ AtEOF /\ Shape(tree) = <<"(", "(", "-", "1", ")", "+", "(", "(", "2", "*", "3", ")", "*", "4", ")", ")">>
        /\ input = <<"-", " ", "1", " ", "+", " ", "2", " ", "*", " ", "(", "3", " ", "+", " ", "4", ")">> =>
              status = "returned" /\ AtEOF /\ Shape(tree) = <<"(", "(", "-", "1", ")", "+", "(", "2", "*", "[", "(", "3", "+", "4", ")", "]", ")", ")">>
        /\ input = <<"x", " ", "=", " ", "1", " ", "A", "N", "D", " ", "y", " ", "=", " ", "2">> =>
              status = "returned" /\ AtEOF /\ Shape(tree) = <<"(", "(", "x", "=", "1", ")", "A", "N", "D", "(", "y", "=", "2", ")", ")">>

\* x + y * z has been parsed: the product is the right operand of the sum
C7_Witness ==
    /\ Returned("parse_column_expression")
    /\ input = Ternary(<<"+">>, <<"*">>)
    /\ AtEOF
    /\ tree.kind = "ColumnInfixExpression"
    /\ tree.operator.keyword = "PLUS"
    /\ tree.right.kind = "ColumnInfixExpression"
    /\ tree.right.operator.keyword = "ASTERISK"

\* the entry point name called on a new Parser over text
ParseBy(name, text) ==
    IF name = "parse_column_expression"
    THEN parse_column_expression(Parser(Lexer(text)), ColumnExpressionPrecedence.LOWEST)
    ELSE parse_table_expression(Parser(Lexer(text)), TableExpressionPrecedence.LOWEST)

\* the parse has returned with every token consumed
Complete(r) == r.p.raised = "" /\ r.p.current_token.type = "EOF"

\* the current input followed by the alias q, without AS and with it
Short == ParseBy(entry, input \o <<" ", "q">>)

Long == ParseBy(entry, input \o <<" ", "A", "S", " ", "q">>)

\* a value expression v has been parsed in full, in column or table context
ValueParsed ==
    /\ entry \in {"parse_column_expression", "parse_table_expression"}
    /\ status = "returned"
    /\ AtEOF
    /\ gen = 0

IsAlias(n) == n.kind \in {"ColumnAlias", "TableAlias"}

\* a and b are alias nodes of one value and of the name q, a without AS and
\* b with it
AliasPair(a, b) ==
    /\ IsAlias(a) /\ IsAlias(b) /\ a.kind = b.kind
    /\ a.value = b.value
    /\ a.alias = <<"q">> /\ b.alias = <<"q">>
    /\ a.as_ = None
    /\ b.as_ # None /\ b.as_.kind = "Keyword" /\ b.as_.keyword = "AS"
    /\ a = [b EXCEPT !.as_ = None]

\* C10 as stated: alias shorthand.  For every value expression v, 'v q' and
\* 'v AS q' parse, in column and in table context, to alias nodes of the same
\* value and the same name, as_ being absent in the first and an AS keyword
\* in the second.
C10_AliasShorthand ==
    ValueParsed => (Complete(Short) /\ Complete(Long) /\ AliasPair(Short.node, Long.node))

\* C10 amended: for every v that parses in full alone, 'v q' and 'v AS q' both
\* parse in full and their trees differ in nothing but the as_ of one alias
\* node of the name q, absent in the first and an AS keyword in the second.
\* That node is the root, its value being the tree of v, except when v is a
\* table join: then the root is the join of v and the alias node is its
\* condition, the value being the condition of v.
C10_AliasShorthandButJoin ==
    ValueParsed =>
        /\ Complete(Short) /\ Complete(Long)
        /\ IF tree.kind = "TableJoinExpression"
           THEN /\ Short.node.kind = "TableJoinExpression"
                /\ Long.node.kind = "TableJoinExpression"
                /\ AliasPair(Short.node.condition, Long.node.condition)
                /\ Short.node.condition.kind = "ColumnAlias"
                /\ string(Short.node.condition.value) = string(tree.condition)
                /\ Short.node = [Long.node EXCEPT !.condition = Short.node.condition]
                /\ tree = [Short.node EXCEPT !.condition = tree.condition,
                                             !.trailing = tree.trailing]
           ELSE /\ AliasPair(Short.node, Long.node)
                /\ Short.node.value = tree

\* a table join has been parsed in full, and the alias that follows it is
\* the alias of its condition
C10_Witness ==
    /\ ValueParsed
    /\ tree.kind = "TableJoinExpression"
    /\ Complete(Short) /\ Complete(Long)
    /\ Short.node.condition.kind = "ColumnAlias"
    /\ Long.node.condition.as_.keyword = "AS"

\* ------------------------------------------------------------------------
\* The Lexer alone
\* ------------------------------------------------------------------------

\* the end of the run of identifier characters of text that begins at at
WordEnd(text, at) ==
    CHOOSE e \in at..Len(text) :
        /\ \A i \in (at + 1)..e : is_identifier_char(text[i])
        /\ e < Len(text) => ~is_identifier_char(text[e + 1])

\* the word of text that begins at at, <<>> where no word begins
WordAt(text, at) ==
    IF at < Len(text) /\ (is_letter(text[at + 1]) \/ text[at + 1] = "_")
    THEN SubSeq(text, at + 1, WordEnd(text, at))
    ELSE <<>>

\* the character of text after the word that begins at at, "" at the end
AfterWord(text, at) ==
    IF WordEnd(text, at) < Len(text) THEN text[WordEnd(text, at) + 1] ELSE ""

\* the types of the tokens the calls returned
TypesReturned == [i \in 1..Len(calls) |-> calls[i].t.type]

\* C11: next_token called where an unquoted word begins that no dot follows
\* and whose upper-cased spelling is in the keyword table returns that
\* keyword's token with the word as spelled for literal, unless "(" follows
\* the word at once: then it returns an IDENTIFIER. LEFT JOIN begins with the
\* keyword LEFT; LEFT() is IDENTIFIER, LPAREN, RPAREN, EOF.
C11_KeywordUnlessCalled ==
    /\ \A i \in 1..Len(calls) :
         (/\ calls[i].fn = "next_token"
          /\ WordAt(input, calls[i].at) # <<>>
          /\ AfterWord(input, calls[i].at) # "."
          /\ upper(WordAt(input, calls[i].at)) \in DOMAIN keyword_tokens)
         => /\ ~calls[i].hang
            /\ calls[i].t.literal = WordAt(input, calls[i].at)
            /\ calls[i].t.type =
                 IF AfterWord(input, calls[i].at) = "(" THEN "IDENTIFIER"
                 ELSE keyword_tokens[upper(WordAt(input, calls[i].at))]
    /\ (input = <<"L", "E", "F", "T", " ", "J", "O", "I", "N">> /\ calls # <<>> /\ calls[1].fn = "next_token")
         => calls[1].t = Token("LEFT", <<"L", "E", "F", "T">>)
    /\ (input = <<"L", "E", "F", "T", "(", ")">> /\ Len(calls) = 4 /\ calls[1].fn = "next_token")
         => /\ TypesReturned = <<"IDENTIFIER", "LPAREN", "RPAREN", "EOF">>
            /\ calls[1].t.literal = <<"L", "E", "F", "T">>

\* left(LEFT is lexed as IDENTIFIER left, LPAREN, keyword LEFT
C11_Witness ==
    /\ input = <<"l", "e", "f", "t", "(", "L", "E", "F", "T">>
    /\ Len(calls) = 3
    /\ calls[1].fn = "next_token"
    /\ calls[1].t = Token("IDENTIFIER", <<"l", "e", "f", "t">>)
    /\ calls[3].t = Token("LEFT", <<"L", "E", "F", "T">>)

\* the query of test_select_full
FullStatement ==
    <<"S", "E", "L", "E", "C", "T", " ", "C", "O", "U", "N", "T", "(", "*", ")", " ", "F", "R", "O", "M", " ", "u", "s", "e", "r", "s", " ", "W", "H", "E", "R", "E", " ", "i", "s", "_", "a", "c", "t", "i", "v", "e", " ", "I", "S", " ", "T", "R", "U", "E", " ", "G", "R", "O", "U", "P", " ", "B", "Y", " ", "c", "o", "u", "n", "t", "r", "y", " ", "H", "A", "V", "I", "N", "G", " ", "C", "O", "U", "N", "T", "(", "*", ")", " ", ">", " ", "0", " ", "O", "R", "D", "E", "R", " ", "B", "Y", " ", "C", "O", "U", "N", "T", "(", "*", ")", " ", "D", "E", "S", "C", " ", "L", "I", "M", "I", "T", " ", "1", "0">>

\* C12: full statement.  parse_select on the query of test_select_full
\* returns a Select with results, from_, where, group_by, having, order_by
\* and limit all present, at EOF, whose original_string() is the input.
C12_FullStatement ==
    Ended("parse_select", FullStatement)
    => /\ status = "returned"
       /\ tree.kind = "Select"
       /\ \A slot \in {"results", "from_", "where", "group_by", "having",
                        "order_by", "limit"} : tree[slot] # None
       /\ AtEOF
       /\ original_string(tree) = input

\* the call beginning at at begins on the quote q and no q follows
Unterminated(at, q) ==
    /\ at < Len(input)
    /\ input[at + 1] = q
    /\ \A j \in (at + 2)..Len(input) : input[j] # q

\* C13: unterminated quotes.  next_token called on an opening single or
\* double quote that no closing quote follows returns: a STRING or an
\* IDENTIFIER token whose literal runs to the end of the input, and the next
\* call returns EOF.
C13_UnterminatedQuoteEnds ==
    \A i \in 1..Len(calls) :
      \A q \in {"'", "\""} :
        (calls[i].fn = "next_token" /\ Unterminated(calls[i].at, q))
        => /\ ~calls[i].hang
           /\ calls[i].t.type = (IF q = "'" THEN "STRING" ELSE "IDENTIFIER")
           /\ calls[i].t.literal = SubSeq(input, calls[i].at + 1, Len(input))
           /\ i < Len(calls) => calls[i + 1].t.type = "EOF"

\* the characters that begin a token of some class
TokenStarts ==
    {" ", "\n", "\t", "\"", "'", "+", "-", "*", "/", "|", "=", "!", "<", ">", ",",
     ".", ":", "(", ")", "_"}
    \cup Lower \cup Upper \cup Digits

\* the call beginning at at begins on a character that begins no token
OnIllegal(at) == at < Len(input) /\ input[at + 1] \notin TokenStarts

\* C14: the lexer never fails on unrecognized characters.  next_token called
\* on a character that begins no token class returns an ILLEGAL token whose
\* literal is that one character, and leaves the Lexer on the character after
\* it, where the next call begins.
C14_IllegalIsOneCharacter ==
    \A i \in 1..Len(calls) :
      (calls[i].fn = "next_token" /\ OnIllegal(calls[i].at))
      => /\ ~calls[i].hang
         /\ calls[i].t = Token("ILLEGAL", <<input[calls[i].at + 1]>>)
         /\ i < Len(calls) => calls[i + 1].at = calls[i].at + 1
         /\ i = Len(calls) =>
              /\ lexer.char_pos = calls[i].at + 1
              /\ lexer.read_pos = calls[i].at + 2
              /\ lexer.char = (IF calls[i].at + 1 < Len(input)
                               THEN input[calls[i].at + 2] ELSE "")

\* a$; is lexed as IDENTIFIER a, ILLEGAL $, ILLEGAL ;, EOF
C14_Witness ==
    /\ input = <<"a", "$", ";">>
    /\ Len(calls) = 4
    /\ calls[1].fn = "next_token"
    /\ calls[2].t = Token("ILLEGAL", <<"$">>)
    /\ calls[3].t = Token("ILLEGAL", <<";">>)
    /\ calls[4].t.type = "EOF"

\* ------------------------------------------------------------------------
\* Failures
\* ------------------------------------------------------------------------

\* the text holds no quoted text, so that each of its characters that begins
\* no token class is lexed as an ILLEGAL token
Unquoted(text) == \A i \in 1..Len(text) : text[i] \notin {"'", "\""}

HasIllegal(text) ==
    Unquoted(text) /\ \E i \in 1..Len(text) : text[i] \notin TokenStarts

\* C15: every ILLEGAL token is rejected by the parser.  parse_select on an
\* input whose tokens include an ILLEGAL one raises and returns no tree,
\* wherever the token stands: SELECT $, SELECT 1 $.
C15_IllegalIsRejected ==
    (entry = "parse_select" /\ gen = 0 /\ status \in {"returned", "raised"}
     /\ HasIllegal(input))
    => (status = "raised" /\ tree = None)

\* calls that meet a token other than the one the grammar requires: no
\* SELECT, GROUP and ORDER without BY, BETWEEN without AND, JOIN without ON,
\* a group without ")", AS without an identifier
MissingToken ==
    {<<"parse_select", <<"x", " ", "F", "R", "O", "M", " ", "t">>>>,
     <<"parse_select", <<"S", "E", "L", "E", "C", "T", " ", "a", " ", "F", "R", "O", "M", " ", "t", " ", "G", "R", "O", "U", "P", " ", "a">>>>,
     <<"parse_select", <<"S", "E", "L", "E", "C", "T", " ", "a", " ", "F", "R", "O", "M", " ", "t", " ", "O", "R", "D", "E", "R", " ", "a">>>>,
     <<"parse_column_expression", <<"x", " ", "B", "E", "T", "W", "E", "E", "N", " ", "a", " ", "b">>>>,
     <<"parse_table_expression", <<"a", " ", "J", "O", "I", "N", " ", "b", " ", "c">>>>,
     <<"parse_column_expression", <<"(", "1">>>>,
     <<"parse_column_expression", <<"x", " ", "A", "S", " ", "1">>>>}

\* C16: a missing required token fails as a ParseError.  Each call of
\* MissingToken raises ParseError, and the error names the token met.
C16_MissingTokenIsParseError ==
    \A call \in MissingToken :
      Ended(call[1], call[2])
      => /\ status = "raised"
         /\ parser.raised = "ParseError"
         /\ parser.message = parser.current_token.type

\* the type of the token a Parser constructed on the input begins at: the
\* first significant token of the input
StartToken == next_whitespace_and_token(Lexer(input)).t.type

\* the call of the entry point on the input has ended with a ParseError that
\* names the token type, and no tree
FailedAt(type) ==
    /\ status = "raised"
    /\ tree = None
    /\ parser.raised = "ParseError"
    /\ parser.message = type

\* if the token type start has no handler in the table, so has the call ended
FailsWithout(prefix_parse_fns, start) ==
    start \notin DOMAIN prefix_parse_fns => FailedAt(start)

\* C17: no prefix handler means failure.  parse_column_expression and
\* parse_table_expression called on a token with no prefix handler raise
\* ParseError naming the token type and return no tree; SELECT alone,
\* SELECT FROM t and SELECT a, FROM t fail in parse_select.
C17_NoPrefixHandlerFails ==
    /\ (entry = "parse_column_expression" /\ status \in {"returned", "raised"})
       => FailsWithout(column_prefix_parse_fns, StartToken)
    /\ (entry = "parse_table_expression" /\ status \in {"returned", "raised"})
       => FailsWithout(table_prefix_parse_fns, StartToken)
    /\ Ended("parse_select", <<"S", "E", "L", "E", "C", "T">>) => FailedAt("EOF")
    /\ Ended("parse_select", <<"S", "E", "L", "E", "C", "T", " ", "F", "R", "O", "M", " ", "t">>) => FailedAt("FROM")
    /\ Ended("parse_select", <<"S", "E", "L", "E", "C", "T", " ", "a", ",", " ", "F", "R", "O", "M", " ", "t">>) => FailedAt("FROM")

\* SELECT a, FROM t has failed at FROM
C17_Witness ==
    /\ Ended("parse_select", <<"S", "E", "L", "E", "C", "T", " ", "a", ",", " ", "F", "R", "O", "M", " ", "t">>)
    /\ FailedAt("FROM")
    /\ parser.current_token = Token("FROM", <<"F", "R", "O", "M">>)

\* ------------------------------------------------------------------------
\* Formatting
\* ------------------------------------------------------------------------

\* str.lower() on one upper-case letter
LowerOf(c) == CHOOSE d \in Lower : UpperOf[d] = c

\* the run of identifier characters of text around position i
RunStart(text, i) ==
    CHOOSE a \in 1..i :
        /\ \A k \in a..i : is_identifier_char(text[k])
        /\ a > 1 => ~is_identifier_char(text[a - 1])

RunEnd(text, i) ==
    CHOOSE b \in i..Len(text) :
        /\ \A k \in i..b : is_identifier_char(text[k])
        /\ b < Len(text) => ~is_identifier_char(text[b + 1])

\* text[a..b] is a word between whitespace (or the ends of the text) whose
\* upper-cased spelling is a keyword: in unquoted text, a keyword token
KeywordBetween(text, a, b) ==
    /\ a = 1 \/ is_whitespace(text[a - 1])
    /\ b = Len(text) \/ is_whitespace(text[b + 1])
    /\ upper(SubSeq(text, a, b)) \in DOMAIN keyword_tokens

\* position i of text is in such a word
InKeyword(text, i) ==
    /\ is_identifier_char(text[i])
    /\ KeywordBetween(text, RunStart(text, i), RunEnd(text, i))

\* text with those keywords in lower case
Lowered(text) ==
    [i \in 1..Len(text) |->
        IF text[i] \in Upper /\ InKeyword(text, i) THEN LowerOf(text[i]) ELSE text[i]]

\* text with a newline for each space
Respaced(text) == [i \in 1..Len(text) |-> IF text[i] = " " THEN "\n" ELSE text[i]]

\* the same tokens as text, formatted otherwise, lowered being Lowered(text)
FormattingsOf(text, lowered) == {Respaced(text), lowered, Respaced(lowered)}

Formattings == FormattingsOf(input, Lowered(input))

\* in the text render every keyword is in upper case, and no newline or tab
\* appears
Canonical(render) ==
    \A i \in 1..Len(render) :
        /\ render[i] \notin {"\n", "\t"}
        /\ (render[i] \in Lower) => ~InKeyword(render, i)

\* parse_select has returned r, at EOF, and r renders as the tree does
SameRender(r) ==
    /\ r.p.raised = ""
    /\ r.p.current_token.type = "EOF"
    /\ string(r.node) = string(tree)

\* C18: the canonical render is independent of source formatting.  When
\* parse_select accepts an input without quoted text, it accepts the same
\* tokens with other whitespace between them and with keywords in lower
\* case, and string() of the two trees is the same text, in which every
\* keyword is in upper case and no newline or tab of the source appears.
C18_RenderIgnoresFormatting ==
    (Returned("parse_select") /\ AtEOF /\ Unquoted(input))
    => /\ \A v \in Formattings : SameRender(parse_select(Parser(Lexer(v))))
       /\ Canonical(string(tree))

\* SELECT x AS y is accepted, and so formatted otherwise
C18_Witness ==
    /\ input = <<"S", "E", "L", "E", "C", "T", " ", "x", " ", "A", "S", " ", "y">>
    /\ Returned("parse_select") /\ AtEOF
    /\ <<"s", "e", "l", "e", "c", "t", "\n", "x", "\n", "a", "s", "\n", "y">> \in Formattings
    /\ string(tree) = input

\* the call beginning at at begins on a single-line comment
OnComment(at) ==
    at + 1 < Len(input) /\ input[at + 1] = "-" /\ input[at + 2] = "-"

\* C19: single-line comments are trivia.  next_whitespace_and_token called
\* where a -- comment begins returns the comment in its trivia list, as a
\* COMMENT_SINGLE token whose literal begins with --, and for token a token
\* that is no part of the comment.
C19_CommentIsTrivia ==
    \A i \in 1..Len(calls) :
      (calls[i].fn = "next_whitespace_and_token" /\ OnComment(calls[i].at))
      => /\ ~calls[i].hang
         /\ calls[i].whitespace # <<>>
         /\ calls[i].whitespace[1].type = "COMMENT_SINGLE"
         /\ SubSeq(calls[i].whitespace[1].literal, 1, 2) = <<"-", "-">>
         /\ calls[i].t.type # "SUBTRACT"

\* the input is one IDENTIFIER token
OneIdentifier == Parser(Lexer(input)).current_token = Token("IDENTIFIER", input)

\* C20: table identifiers have at most two segments.  parse_table_expression
\* on an identifier token of three or more segments raises; on one it
\* accepts, schema and table hold all the segments: string() of the
\* TableIdentifier is the token's text.
C20_TableIdentifierSegments ==
    (entry = "parse_table_expression" /\ gen = 0 /\ status \in {"returned", "raised"}
     /\ OneIdentifier)
    => /\ Len(split(input, ".")) >= 3 => (status = "raised" /\ tree = None)
       /\ status = "returned" =>
            /\ tree.kind = "TableIdentifier"
            /\ string(tree) = input

\* ------------------------------------------------------------------------
\* Child enumeration
\* ------------------------------------------------------------------------

RECURSIVE Descendants(_)
RECURSIVE DescendantsFrom(_, _)

\* the nodes of the tree of n, n included
Descendants(n) ==
    IF n = None THEN {} ELSE {n} \cup DescendantsFrom(Children(n), 1)

DescendantsFrom(nodes, k) ==
    IF k > Len(nodes) THEN {}
    ELSE Descendants(nodes[k]) \cup DescendantsFrom(nodes, k + 1)

\* every immediate structural child of n: the node fields under their names,
\* then the list elements under their indexes
StructuralChildren(n) ==
    Node_child_nodes(n)
    \o (IF ListField(n.kind) = "" THEN <<>> ELSE List_child_nodes(n))

\* C21: child_nodes() of every node of a returned tree enumerates every
\* immediate structural child, a node field under its name and a list element
\* under its index, in source order: the function identifier of a call as
\* well as its arguments, the keywords of a GROUP BY or ORDER BY clause as
\* well as its expressions.
C21_ChildNodesComplete ==
    status = "returned" =>
        \A n \in Descendants(tree) : child_nodes(n) = StructuralChildren(n)

\* ------------------------------------------------------------------------
\* Clause dispatch
\* ------------------------------------------------------------------------

\* the clauses of a statement in the order of their slots: the keyword that
\* introduces each and the field of Select that holds it
ClauseKeywords == <<"FROM", "WHERE", "GROUP", "HAVING", "ORDER", "LIMIT">>

ClauseSlots == <<"from_", "where", "group_by", "having", "order_by", "limit">>

\* the k-th clause parsed from p
ParseClause(k, p) ==
    CASE k = 1 -> parse_from_clause(p)
      [] k = 2 -> parse_where_clause(p)
      [] k = 3 -> parse_group_by_clause(p)
      [] k = 4 -> parse_having_clause(p)
      [] k = 5 -> parse_order_by_clause(p)
      [] k = 6 -> parse_limit_clause(p)

RECURSIVE Dispatched(_, _, _, _)

\* statement holds, from slot k on, exactly the clauses whose keyword is the
\* current token when their turn comes, p being the parser at the turn of
\* slot k, and the parser ends on the token last
Dispatched(p, k, statement, last) ==
    Do(p, LAMBDA q :
    IF k > Len(ClauseSlots) THEN parse_whitespace(q).p.current_token = last
    ELSE IF q.raised = "" /\ q.current_token.type = ClauseKeywords[k]
    THEN /\ statement[ClauseSlots[k]] # None
         /\ Dispatched(ParseClause(k, q).p, k + 1, statement, last)
    ELSE /\ statement[ClauseSlots[k]] = None
         /\ Dispatched(q, k + 1, statement, last))

\* the parser after the results list of input
AfterResults ==
    parse_results_clause(parse_keyword(Cleared(Parser(Lexer(input)))).p).p

\* C22: after the results list parse_select tries FROM, WHERE, GROUP BY,
\* HAVING, ORDER BY and LIMIT once each, in that order and without going
\* back: a slot is filled exactly when the current token at its turn is the
\* keyword of its clause, so a clause keyword met after its turn stays the
\* current token and is not in the tree.
C22_ClauseDispatchInOrder ==
    Returned("parse_select") =>
        Dispatched(AfterResults, 1, tree, parser.current_token)

\* 'SELECT 1 WHERE x FROM t': WHERE is parsed, FROM is left as current token
C22_Witness ==
    /\ Returned("parse_select")
    /\ input = <<"S", "E", "L", "E", "C", "T", " ", "1", " ", "W", "H", "E", "R", "E", " ", "x", " ", "F", "R", "O", "M", " ", "t">>
    /\ tree.from_ = None
    /\ tree.where # None
    /\ parser.current_token.type = "FROM"

\* ------------------------------------------------------------------------
\* Tokens with a precedence and no infix handler
\* ------------------------------------------------------------------------

\* the token types with a column precedence above the lowest and no entry in
\* the table of column infix handlers
Handlerless ==
    {type \in DOMAIN token_column_precedences :
        /\ token_column_precedences[type] > ColumnExpressionPrecedence.LOWEST
        /\ type \notin DOMAIN column_infix_parse_fns}

\* the letters that the words of these tokens begin with
HandlerlessInitials ==
    UNION {{word[1], LowerOf(word[1])} :
              word \in {w \in DOMAIN keyword_tokens : keyword_tokens[w] \in Handlerless}}

\* the input up to position k, and from it
Before(k) == SubSeq(input, 1, k - 1)

From(k) == SubSeq(input, k, Len(input))

\* position k is the blank between a column expression, complete by itself,
\* and a token of Handlerless
StopsAt(k) ==
    /\ input[k] = " "
    /\ k > 1
    /\ k < Len(input)
    /\ input[k - 1] # " "
    /\ input[k + 1] \in HandlerlessInitials
    /\ Parser(Lexer(From(k))).current_token.type \in Handlerless
    /\ Complete(ParseBy("parse_column_expression", Before(k)))

\* C23: when the token after an expression has a column precedence above the
\* lowest and no infix handler (IN, LIKE, ILIKE, NOT), parse_column_expression
\* returns the expression built so far, raises nothing, and leaves that token
\* as the current token.
C23_HandlerlessTokenStops ==
    \A k \in 1..Len(input) :
        (status # "constructed" /\ entry = "parse_column_expression" /\ StopsAt(k)) =>
            /\ status = "returned"
            /\ tree = ParseBy(entry, Before(k)).node
            /\ parser.current_token = Parser(Lexer(From(k))).current_token

\* 'a + b LIKE c' returns a + b on LIKE
C23_Witness ==
    /\ Returned("parse_column_expression")
    /\ input = <<"a", " ", "+", " ", "b", " ", "L", "I", "K", "E", " ", "c">>
    /\ StopsAt(6)
    /\ tree.kind = "ColumnInfixExpression"
    /\ parser.current_token.type = "LIKE"

\* ------------------------------------------------------------------------
\* Joins
\* ------------------------------------------------------------------------

\* text occurs in the input from position k on
Occurs(text, k) ==
    /\ k + Len(text) - 1 <= Len(input)
    /\ SubSeq(input, k, k + Len(text) - 1) = text

\* position k is the blank before a JOIN that follows a table expression
\* complete by itself
JoinAt(k) ==
    /\ Occurs(<<" ", "J", "O", "I", "N", " ">>, k)
    /\ Complete(ParseBy("parse_table_expression", Before(k + 1)))

\* position m is the blank before the ON of the JOIN at k: what is between
\* them is a table expression complete by itself
OnAt(k, m) ==
    /\ m > k + 5
    /\ Occurs(<<" ", "O", "N", " ">>, m)
    /\ Complete(ParseBy("parse_table_expression", SubSeq(input, k + 5, m)))

\* the last JOIN of the input that follows a complete table expression
LastJoin == CHOOSE k \in 1..Len(input) : JoinAt(k) /\ \A j \in (k + 1)..Len(input) : ~JoinAt(j)

\* the tree is the join of what is before position k, as parsed by itself,
\* with the table expression up to position m and the column expression
\* after it, on which the parse ends
JoinedAt(k, m) ==
    /\ tree.kind = "TableJoinExpression"
    /\ tree.left = ParseBy("parse_table_expression", Before(k + 1)).node
    /\ tree.join.keyword = "JOIN"
    /\ tree.right = ParseBy("parse_table_expression", SubSeq(input, k + 5, m)).node
    /\ tree.on.keyword = "ON"
    /\ Do(ParseBy("parse_column_expression", From(m + 3)), LAMBDA condition :
          /\ condition.node = tree.condition
          /\ condition.p.current_token = parser.current_token)

\* C24: in a table expression an alias binds tighter than JOIN and JOIN
\* associates to the left: the left side of the last JOIN is everything before
\* it, the alias in 'users u JOIN schools ON c' and the first join in
\* 'a JOIN b ON c JOIN d ON e'.  A JOIN takes its right table expression,
\* then ON, then one column expression as its condition.
C24_JoinLeftAssociative ==
    (Returned("parse_table_expression") /\ \E k \in 1..Len(input) : JoinAt(k)) =>
        \E m \in 1..Len(input) : OnAt(LastJoin, m) /\ JoinedAt(LastJoin, m)

\* 'a JOIN b ON c JOIN d ON e' is the join of a JOIN b ON c with d
C24_Witness ==
    /\ Returned("parse_table_expression")
    /\ input = <<"a", " ", "J", "O", "I", "N", " ", "b", " ", "O", "N", " ", "c", " ", "J", "O", "I", "N", " ", "d", " ", "O", "N", " ", "e">>
    /\ LastJoin = 14
    /\ tree.left.kind = "TableJoinExpression"
    /\ tree.right.kind = "TableIdentifier"

\* ------------------------------------------------------------------------
\* Call arguments
\* ------------------------------------------------------------------------

\* how many characters of text the parser p of text has consumed, its current
\* token included
Consumed(p, text) ==
    (IF p.lexer.char_pos < Len(text) THEN p.lexer.char_pos ELSE Len(text))
    - Len(Concat([i \in 1..Len(p.peek_whitespace) |-> p.peek_whitespace[i].literal]))
    - Len(p.peek_token.literal)

\* the outcome of reading an argument list: the exception it ends with, or
\* the arguments read and the position of the closing parenthesis
Walked(raised, message, arguments, end) ==
    [raised |-> raised, message |-> message, arguments |-> arguments, end |-> end]

RECURSIVE ArgumentsFrom(_, _)

\* the arguments written from position pos on, each parsed by itself as a
\* column expression, after the arguments already read
ArgumentsFrom(pos, arguments) ==
    Do(ParseBy("parse_column_expression", From(pos)), LAMBDA r :
    IF r.p.raised # "" THEN Walked(r.p.raised, r.p.message, arguments, 0)
    ELSE
    Do(pos + Consumed(r.p, From(pos)), LAMBDA next :
    IF r.p.current_token.type = "COMMA"
    THEN ArgumentsFrom(next, Append(arguments, r.node))
    ELSE IF r.p.current_token.type = "RPAREN"
    THEN Walked("", "", Append(arguments, r.node), next - 1)
    ELSE Walked("ParseError", r.p.current_token.type, arguments, 0)))

\* the argument list opened by the parenthesis at position k
ArgumentList(k) ==
    Do(Parser(Lexer(From(k + 1))), LAMBDA p :
    IF p.raised = "" /\ p.current_token.type = "RPAREN"
    THEN Walked("", "", <<>>, k + Consumed(p, From(k + 1)))
    ELSE ArgumentsFrom(k + 1, <<>>))

\* the handlers of the expressions that are one token
Primary ==
    {"parse_column_integer", "parse_column_string", "parse_column_identifier",
     "parse_keyword"}

\* the parser of the input before any parse
Start == Parser(Lexer(input))

\* the expression that the first token of the input is
Function == ColumnPrefixCall(column_prefix_parse_fn(Start.current_token.type), Start)

\* position k is a parenthesis that follows the first token of the input, an
\* expression by itself
CallAt(k) ==
    /\ input[k] = "("
    /\ Start.raised = ""
    /\ Start.peek_token.type = "LPAREN"
    /\ Start.lexer.char_pos = k
    /\ column_prefix_parse_fn(Start.current_token.type) \in Primary
    /\ Function.p.raised = ""

\* the nodes without their trailing trivia
Untrailed(nodes) == [i \in 1..Len(nodes) |-> [nodes[i] EXCEPT !.trailing = <<>>]]

\* the parse of the input is the call, opened at position k, that w tells
CalledAs(k, w) ==
    /\ w.raised # "" =>
          /\ status = "raised"
          /\ parser.raised = w.raised
          /\ parser.message = w.message
    /\ (w.raised = "" /\ w.end = Len(input)) =>
          /\ status = "returned"
          /\ tree.kind = "ColumnCallExpression"
          /\ tree.function = Function.node
          /\ Untrailed(tree.arguments) = Untrailed(w.arguments)

\* C25: '(' after an expression builds a call whose arguments are the column
\* expressions written between commas up to the matching ')', in source
\* order, none for '()', a nested call being one argument at its own index.
\* An argument followed by a token other than ',' and ')', EOF included, and
\* a ',' followed by ')', end the parse with ParseError.
C25_CallArguments ==
    \A k \in 1..Len(input) :
        (status # "constructed" /\ entry = "parse_column_expression" /\ CallAt(k)) =>
            CalledAs(k, ArgumentList(k))

\* f(g(a), h(b, c)) has the two calls as its arguments
C25_Witness ==
    /\ Returned("parse_column_expression")
    /\ input = <<"f", "(", "g", "(", "a", ")", ",", " ", "h", "(", "b", ",", " ", "c", ")", ")">>
    /\ CallAt(2)
    /\ Len(tree.arguments) = 2
    /\ tree.arguments[1].kind = "ColumnCallExpression"
    /\ Len(tree.arguments[2].arguments) = 2

\* ------------------------------------------------------------------------
\* The text of the tokens
\* ------------------------------------------------------------------------

\* no call made so far has failed to return
AllReturned == \A i \in 1..Len(calls) : ~calls[i].hang

\* what the i-th call has returned, as text: the literals of the trivia and
\* of the token
Lexeme(i) ==
    Concat([j \in 1..Len(calls[i].whitespace) |-> calls[i].whitespace[j].literal])
    \o calls[i].t.literal

\* C26: the lexer is lossless.  Without an unterminated quote, the literals
\* of the tokens of successive next_token calls are consecutive slices of the
\* input, each starting where the one before ended, and up to EOF they
\* concatenate to the input.
C26_LexerLossless ==
    (calls # <<>> /\ AllReturned) =>
        /\ calls[1].at = 0
        /\ \A i \in 1..Len(calls) :
              /\ Lexeme(i) = SubSeq(input, calls[i].at + 1, calls[i].at + Len(Lexeme(i)))
              /\ (i < Len(calls) /\ calls[i].t.type # "EOF") =>
                    calls[i + 1].at = calls[i].at + Len(Lexeme(i))
        /\ calls[Len(calls)].t.type = "EOF" =>
              Concat([i \in 1..Len(calls) |-> Lexeme(i)]) = input

\* a:b !c > d is returned in its ten tokens, whitespace included, and EOF
C26_Witness ==
    /\ input = <<"a", ":", "b", " ", "!", "c", " ", ">", " ", "d">>
    /\ Len(calls) = 11
    /\ calls[1].fn = "next_token"
    /\ calls[4].t.type = "WHITESPACE"
    /\ calls[11].t.type = "EOF"
    /\ Concat([i \in 1..Len(calls) |-> Lexeme(i)]) = input

\* the position of the lexer when the i-th call has returned
After(i) == IF i < Len(calls) THEN calls[i + 1].at ELSE lexer.char_pos

\* C27: the lexer makes progress.  Without an unterminated quote, a call
\* that does not return EOF moves the scan position forward by at least one
\* character, so EOF is returned by call len(input) + 1 at the latest; after
\* EOF every call returns EOF again, with an empty literal.
C27_LexerProgress ==
    AllReturned =>
        \A i \in 1..Len(calls) :
            /\ calls[i].t.type # "EOF" => After(i) >= calls[i].at + 1
            /\ i > Len(input) => calls[i].t.type = "EOF"
            /\ (i > 1 /\ calls[i - 1].t.type = "EOF") => calls[i].t = Token("EOF", <<>>)

\* LEFT() gives four tokens, each further in the input, and then EOF three
\* times
C27_Witness ==
    /\ input = <<"L", "E", "F", "T", "(", ")">>
    /\ Len(calls) = 6
    /\ calls[1].fn = "next_token"
    /\ calls[3].at = 5
    /\ calls[4].t.type = "EOF"
    /\ calls[6].t = Token("EOF", <<>>)

\* ------------------------------------------------------------------------
\* Termination
\* ------------------------------------------------------------------------

RECURSIVE Lexes(_)

\* next_token returns on every call from l up to EOF: the text has no
\* unterminated quote
Lexes(l) ==
    Do(next_token(l), LAMBDA n : ~n.hang /\ (n.t.type = "EOF" \/ Lexes(n.l)))

\* where the current token of p starts in the text
Position(p) == Consumed(p, p.lexer.input) - Len(p.current_token.literal)

\* q is further in the text than p, by a significant token at least
Advances(p, q) == q.raised = "" => Position(q) > Position(p)

RECURSIVE ColumnLoopAdvances(_, _, _)
RECURSIVE TableLoopAdvances(_, _, _)
RECURSIVE ListAdvances(_)
RECURSIVE ArgumentsAdvance(_)

\* every iteration of the loop of parse_column_expression that starts on p
\* consumes a token, and on EOF the loop is over
ColumnLoopAdvances(p, left_exp, precedence) ==
    IF p.raised # "" THEN TRUE
    ELSE IF p.current_token.type = "EOF"
    THEN ColumnInfixLoop(p, left_exp, precedence) = Parsed(p, left_exp)
    ELSE IF precedence < current_column_precedence(p)
            /\ column_infix_parse_fn(p.current_token.type) # ""
    THEN Do(ColumnInfixCall(column_infix_parse_fn(p.current_token.type), p, left_exp),
            LAMBDA next :
            /\ Advances(p, next.p)
            /\ ColumnLoopAdvances(next.p, next.node, precedence))
    ELSE TRUE

\* the same of the loop of parse_table_expression
TableLoopAdvances(p, left_exp, precedence) ==
    IF p.raised # "" THEN TRUE
    ELSE IF p.current_token.type = "EOF"
    THEN TableInfixLoop(p, left_exp, precedence) = Parsed(p, left_exp)
    ELSE IF precedence < current_table_precedence(p)
            /\ table_infix_parse_fn(p.current_token.type) # ""
    THEN Do(TableInfixCall(table_infix_parse_fn(p.current_token.type), p, left_exp),
            LAMBDA next :
            /\ Advances(p, next.p)
            /\ TableLoopAdvances(next.p, next.node, precedence))
    ELSE TRUE

\* every iteration of a loop over a comma-separated list that starts on p
\* consumes a token, and the loop goes on after a comma only
ListAdvances(p) ==
    Do(parse_column_expression(p, ColumnExpressionPrecedence.LOWEST), LAMBDA expression :
    /\ Advances(p, expression.p)
    /\ (expression.p.raised = "" /\ expression.p.current_token.type = "COMMA") =>
          /\ Advances(expression.p, Parser_next_token(expression.p))
          /\ ListAdvances(Parser_next_token(Cleared(expression.p))))

\* the same of the loop over the arguments of a call
ArgumentsAdvance(p) ==
    Do(parse_column_expression(p, ColumnExpressionPrecedence.LOWEST), LAMBDA argument :
    /\ Advances(p, argument.p)
    /\ (argument.p.raised = "" /\ argument.p.current_token.type = "COMMA") =>
          ArgumentsAdvance(Parser_next_token(Cleared(argument.p)))
    /\ (argument.p.raised = "" /\ argument.p.current_token.type = "EOF") =>
          CallArguments(p, <<>>).p.raised = "ParseError")

\* the loops that a parse of the input starts with advance: the Pratt loops
\* after the first token, the list of a statement after SELECT, the arguments
\* of a call after its parenthesis
LoopsAdvance ==
    /\ column_prefix_parse_fn(parser.current_token.type) # "" =>
          ColumnLoopAdvances(Function.p, Function.node, ColumnExpressionPrecedence.LOWEST)
    /\ table_prefix_parse_fn(parser.current_token.type) # "" =>
          Do(TablePrefixCall(table_prefix_parse_fn(parser.current_token.type), parser),
             LAMBDA left_exp :
             TableLoopAdvances(left_exp.p, left_exp.node, TableExpressionPrecedence.LOWEST))
    /\ parser.current_token.type = "SELECT" => ListAdvances(parse_keyword(parser).p)
    /\ \A k \in 1..Len(input) :
          CallAt(k) => ArgumentsAdvance(Parser_next_token(Cleared(Function.p)))

\* C28: without an unterminated quote a parse terminates, with a tree or an
\* exception.  Every iteration of a Pratt loop, of a loop over a
\* comma-separated list and of the loop over the arguments of a call consumes
\* at least one significant token, and no loop goes on once the current
\* token is EOF.
C28_ParserTerminates ==
    /\ status = "constructed" => (LoopsAdvance \/ ~Lexes(Lexer(input)))
    /\ status # "constructed" =>
          \/ status = "returned" /\ parser.raised = "" /\ tree # None
          \/ status = "raised" /\ parser.raised \in {"ParseError", "AssertionError"}
                               /\ tree = None
          \/ ~Lexes(Lexer(input))

\* the statement of the tests with its clauses, subquery and calls has been
\* parsed to its end
C28_Witness ==
    /\ Returned("parse_select")
    /\ Lexes(Lexer(input))
    /\ Len(input) > 100
    /\ AtEOF
    /\ tree.limit # None

\* ------------------------------------------------------------------------
\* What a clause parser consumes
\* ------------------------------------------------------------------------

\* the clauses as they are written, between blanks
ClauseWords ==
    <<<<" ", "F", "R", "O", "M", " ">>,
      <<" ", "W", "H", "E", "R", "E", " ">>,
      <<" ", "G", "R", "O", "U", "P", " ", "B", "Y", " ">>,
      <<" ", "H", "A", "V", "I", "N", "G", " ">>,
      <<" ", "O", "R", "D", "E", "R", " ", "B", "Y", " ">>,
      <<" ", "L", "I", "M", "I", "T", " ">>>>

\* the parser after what the k-th clause stores of text: a table expression,
\* a column expression, or a list of column expressions
AfterStored(k, text) ==
    CASE k = 1 -> ParseBy("parse_table_expression", text).p
      [] k \in {2, 4, 6} -> ParseBy("parse_column_expression", text).p
      [] k \in {3, 5} -> ExpressionList(Parser(Lexer(text)), <<>>).p

\* the clause parser of the k-th clause, run on the clause written at
\* position at, leaves the parser on the first token after what it stores
StopsAfterStored(k, at) ==
    Do(ParseClause(k, Parser(Lexer(From(at + 1)))), LAMBDA clause :
    clause.p.raised = "" =>
        clause.p.current_token =
            AfterStored(k, From(at + Len(ClauseWords[k]) - 1)).current_token)

\* C29: a clause parser consumes only what it stores.  When parse_limit_clause
\* returns, the current token is the first significant token after the limit
\* expression, and the same holds of the parsers of the FROM, WHERE, GROUP BY,
\* HAVING and ORDER BY clauses.
C29_ClauseConsumesWhatItStores ==
    Returned("parse_select") =>
        \A k \in 1..Len(ClauseWords) : \A at \in 1..Len(input) :
            Occurs(ClauseWords[k], at) => StopsAfterStored(k, at)

\* ------------------------------------------------------------------------
\* Trivia attached at most once
\* ------------------------------------------------------------------------

\* every fragment of s is in t at least as many times
FragmentsWithin(s, t) == \A i \in 1..Len(s) : Count(s, s[i]) <= Count(t, s[i])

\* C30: no trivia is attached twice.  parse_whitespace returns the trivia
\* collected before the current token and clears it: a second call before the
\* parser advances returns an empty list.  So the tree a parse returns holds
\* no whitespace fragment of the input more often than the input does, and
\* the trivia of the tree is not longer in all than the whitespace of the
\* input.
C30_NoTriviaTwice ==
    /\ parser.raised = "" =>
          /\ parse_whitespace(parser).w =
                [i \in 1..Len(parser.current_whitespace) |->
                    parser.current_whitespace[i].literal]
          /\ parse_whitespace(parse_whitespace(parser).p).w = <<>>
          /\ parse_whitespace(parser).p.current_token = parser.current_token
    /\ status = "returned" =>
          Do(TreeTrivia(tree), LAMBDA held :
          \/ held = <<>>
          \/ Do(LexedTrivia(Lexer(input)), LAMBDA emitted :
                /\ FragmentsWithin(held, emitted)
                /\ Len(Concat(held)) <= Len(Concat(emitted))))

\* 'f (a , b )' is returned with its four blanks, each in one list
C30_Witness ==
    /\ Returned("parse_column_expression")
    /\ input = <<"f", " ", "(", "a", " ", ",", " ", "b", " ", ")">>
    /\ Len(LexedTrivia(Lexer(input))) = 4
    /\ TreeTrivia(tree) = <<<<" ">>, <<" ">>, <<" ">>, <<" ">>>>
    /\ tree.preceding = <<<<" ">>>>
    /\ tree.arguments[1].trailing = <<<<" ">>>>

====
